---- MODULE Spec2Model ----
(***************************************************************************)
(* Index-construction and normalization pipeline of urban-isolation-index. *)
(*                                                                         *)
(* The pipeline is a batch of pure table transformations.  A run is        *)
(* modelled as: an input table / series / configuration drawn in Init, and *)
(* one action per routine that applies the routine to the input and        *)
(* stores what it returns (or the error it raises).                        *)
(*                                                                         *)
(* Numbers.  A cell of a pandas column is either a number or missing (NaN).*)
(* A cell is modelled as a sequence: <<>> is NaN, <<v>> is the number v.   *)
(* A standardized column is kept exact: the record                         *)
(*     [num |-> cells, p |-> P, q |-> Q]                                   *)
(* denotes the column whose i-th value is num[i][1] * sqrt(P / Q).         *)
(* For the population z-score of x_1..x_n this is                          *)
(*     num_i = n*x_i - SUM x,   P = 1,   Q = n*SUM x^2 - (SUM x)^2,        *)
(* and for the sample (N-1) z-score P = n-1 and Q = n*(n*SUM x^2-(SUM x)^2)*)
(***************************************************************************)
EXTENDS Integers, Sequences, FiniteSets, TLC

VARIABLES
    df,     \* the input of the run: a series, a table, labels ...
    cfg,    \* the configuration of the run (weights, thresholds, ...)
    res,    \* what the routine returned or wrote; [status |-> "none"] before
    pc      \* the routine that ran, "start" before any

vars == <<df, cfg, res, pc>>

(***************************************************************************)
(* Bounds of the model.                                                    *)
(***************************************************************************)
MaxWards == 3       \* rows (wards) of a series: 1..MaxWards
MaxVal == 2         \* raw metric values: 0..MaxVal

(***************************************************************************)
(* Cells, series and their pandas reductions (NaN is skipped by mean, std, *)
(* min and max).                                                           *)
(***************************************************************************)
NaN == <<>>

Num(v) == <<v>>

IsNaN(c) == c = NaN

Cells == {NaN} \cup {Num(v) : v \in 0..MaxVal}

SeriesOfLen(n) == [1..n -> Cells]

AllSeries == UNION {SeriesOfLen(n) : n \in 1..MaxWards}

CompleteSeries == {s \in AllSeries : \A i \in DOMAIN s : ~IsNaN(s[i])}

Present(s) == {i \in DOMAIN s : ~IsNaN(s[i])}

RECURSIVE SumOver(_, _)
SumOver(f, S) ==
    IF S = {} THEN 0
    ELSE LET i == CHOOSE j \in S : TRUE IN f[i] + SumOver(f, S \ {i})

Count(s) == Cardinality(Present(s))

Total(s) == SumOver([i \in Present(s) |-> s[i][1]], Present(s))

TotalSq(s) == SumOver([i \in Present(s) |-> s[i][1] * s[i][1]], Present(s))

\* n^2 times the population variance of the non-missing cells
VarN2(s) == Count(s) * TotalSq(s) - Total(s) * Total(s)

\* n*x_i - SUM x: n times the deviation from the mean; NaN stays NaN,
\* and everything is NaN when the mean is NaN (no non-missing cell)
Deviations(s) ==
    [i \in DOMAIN s |->
        IF IsNaN(s[i]) \/ Count(s) = 0 THEN NaN
        ELSE Num(Count(s) * s[i][1] - Total(s))]

\* Series.std(ddof): NaN when fewer than ddof+1 non-missing cells
StdIsNaN(s, ddof) == Count(s) <= ddof

StdIsZero(s, ddof) == ~StdIsNaN(s, ddof) /\ VarN2(s) = 0

\* (s - s.mean()) / s.std(ddof) with a usable std
Standardized(s, ddof) ==
    [num |-> Deviations(s),
     p |-> IF ddof = 0 THEN 1 ELSE Count(s) - 1,
     q |-> IF ddof = 0 THEN VarN2(s) ELSE Count(s) * VarN2(s)]

\* the same expression when std is 0 or NaN: 0/0 and x/NaN are NaN
AllNaN(s) == [num |-> [i \in DOMAIN s |-> NaN], p |-> 1, q |-> 1]

\* pd.Series(0.0, index=s.index): a zero on every row
Zeros(s) == [num |-> [i \in DOMAIN s |-> Num(0)], p |-> 1, q |-> 1]

\* x * 0: zero where x is a number, NaN where x is NaN
TimesZero(s) ==
    [num |-> [i \in DOMAIN s |-> IF IsNaN(s[i]) THEN NaN ELSE Num(0)],
     p |-> 1, q |-> 1]

Ok(col) == [status |-> "ok", col |-> col]

Raised(kind) == [status |-> "error", error |-> kind]

\* df.dropna(subset=[col]) on a one-column table: the rows that are kept
RECURSIVE DropNa(_)
DropNa(s) ==
    IF s = <<>> THEN <<>>
    ELSE IF IsNaN(Head(s)) THEN DropNa(Tail(s))
    ELSE <<Head(s)>> \o DropNa(Tail(s))

(***************************************************************************)
(* The standardizer routines, one operator per routine.                    *)
(***************************************************************************)
\* _zscore dividing by the sample standard deviation (ddof=1)
_zscore_SampleStd(s) ==
    IF StdIsZero(s, 1) \/ StdIsNaN(s, 1) THEN Ok(Zeros(s))
    ELSE Ok(Standardized(s, 1))

\* uix/index.py _zscore
_zscore(s) ==
    IF StdIsZero(s, 0) \/ StdIsNaN(s, 0) THEN Ok(Zeros(s))
    ELSE Ok(Standardized(s, 0))

\* cli/07_pca_iso_index.py zscore: only sigma == 0 is guarded
zscore(s) ==
    IF StdIsZero(s, 0) THEN Ok(Zeros(s))
    ELSE IF StdIsNaN(s, 0) THEN Ok(AllNaN(s))
    ELSE Ok(Standardized(s, 0))

\* cli/11_build_final_index.py safe_z
safe_z(s) ==
    IF StdIsZero(s, 0) \/ StdIsNaN(s, 0) THEN Ok(TimesZero(s))
    ELSE Ok(Standardized(s, 0))

\* cli/07_ingest_tokyo_access.py main: dropna, sample std, raise on 0 / NaN
TokyoAccessZ(s) ==
    LET kept == DropNa(s) IN
    IF StdIsZero(kept, 1) \/ StdIsNaN(kept, 1) THEN Raised("ValueError")
    ELSE Ok(Standardized(kept, 1))

\* cli/07_ingest_osaka_access.py main: population std, zeros on 0 / NaN
OsakaAccessZ(s) ==
    IF StdIsZero(s, 0) \/ StdIsNaN(s, 0) THEN Ok(Zeros(s))
    ELSE Ok(Standardized(s, 0))

\* cli/09_ingest_transit_alt.py and cli/09_ingest_osaka_transit.py main:
\* (x - mean) / x.std(), sample std, no guard
StationDensityZ(s) ==
    IF StdIsZero(s, 1) \/ StdIsNaN(s, 1) THEN Ok(AllNaN(s))
    ELSE Ok(Standardized(s, 1))

\* cli/10_merge_transit.py main: population std, only std == 0 is guarded
MergeTransitZ(s) ==
    IF StdIsZero(s, 0) THEN Ok(Zeros(s))
    ELSE IF StdIsNaN(s, 0) THEN Ok(AllNaN(s))
    ELSE Ok(Standardized(s, 0))

(***************************************************************************)
(* Specification of the standardizers: a series is drawn, one routine runs.*)
(***************************************************************************)
NoCfg == [kind |-> "none"]

NoRes == [status |-> "none"]

InitStd ==
    /\ df \in AllSeries
    /\ cfg = NoCfg
    /\ res = NoRes
    /\ pc = "start"

\* the routine `name` ran to its end and left `result`
Returned(name, result) ==
    /\ res' = result
    /\ pc' = name
    /\ UNCHANGED <<df, cfg>>

RunZscore ==
    /\ pc = "start"
    /\ Returned("_zscore", _zscore(df))

RunZscorePca ==
    /\ pc = "start"
    /\ Returned("zscore", zscore(df))

RunSafeZ ==
    /\ pc = "start"
    /\ Returned("safe_z", safe_z(df))

RunTokyoAccess ==
    /\ pc = "start"
    /\ Returned("07_ingest_tokyo_access", TokyoAccessZ(df))

RunOsakaAccess ==
    /\ pc = "start"
    /\ Returned("07_ingest_osaka_access", OsakaAccessZ(df))

\* station_density = station_count / area_km2 has no missing cell:
\* station_count is fillna(0)-ed before
RunTransitAlt ==
    /\ pc = "start"
    /\ df \in CompleteSeries
    /\ Returned("09_ingest_transit_alt", StationDensityZ(df))

RunOsakaTransit ==
    /\ pc = "start"
    /\ df \in CompleteSeries
    /\ Returned("09_ingest_osaka_transit", StationDensityZ(df))

RunMergeTransit ==
    /\ pc = "start"
    /\ Returned("10_merge_transit", MergeTransitZ(df))

NextStd ==
    \/ RunZscore
    \/ RunZscorePca
    \/ RunSafeZ
    \/ RunTokyoAccess
    \/ RunOsakaAccess
    \/ RunTransitAlt
    \/ RunOsakaTransit
    \/ RunMergeTransit

SpecStd == InitStd /\ [][NextStd]_vars

StdRoutines ==
    {"_zscore", "zscore", "safe_z", "07_ingest_tokyo_access",
     "07_ingest_osaka_access", "09_ingest_transit_alt",
     "09_ingest_osaka_transit", "10_merge_transit"}

\* the standard deviation the routine that ran divides by is 0 or NaN
\* (all non-missing values equal, a single row, or nothing to measure)
DegenerateStd ==
    LET ddof == IF pc \in {"07_ingest_tokyo_access", "09_ingest_transit_alt",
                           "09_ingest_osaka_transit"} THEN 1 ELSE 0
    IN  StdIsZero(df, ddof) \/ StdIsNaN(df, ddof)

AllZero(col) == \A i \in DOMAIN col.num : col.num[i] = Num(0)

\* C2: every standardizer routine returns an all-zero column, without
\* raising and without NaN, whenever the standard deviation of its input
\* column is zero or undefined (all values equal, or a single row).
\* Stated for columns without missing values, the cases the claim names.
C2_EveryStandardizerZeroFallback ==
    (pc \in StdRoutines /\ df \in CompleteSeries /\ DegenerateStd) =>
        (res.status = "ok" /\ Len(res.col.num) = Len(df) /\ AllZero(res.col))

\* two columns num * sqrt(p/q) hold the same values
SameValues(a, b) == a.num = b.num /\ a.p * b.q = b.p * a.q

\* the metric column has no missing value and its variance is above 0
VaryingComplete == df \in CompleteSeries /\ VarN2(df) > 0

\* C12: every routine that produces a standardized column feeding a
\* composite or PCA index divides by the population standard deviation
\* (denominator N), never by the sample standard deviation (N-1).
C12_PopulationStdEverywhere ==
    (pc \in StdRoutines /\ VaryingComplete) =>
        (res.status = "ok" /\ SameValues(res.col, Standardized(df, 0)))

SumNum(col) == SumOver([i \in DOMAIN col.num |-> col.num[i][1]], DOMAIN col.num)

SumNumSq(col) ==
    SumOver([i \in DOMAIN col.num |-> col.num[i][1] * col.num[i][1]], DOMAIN col.num)

\* C13: for a metric column without missing values and with variance
\* above 0, the output of the standardizer (_zscore, safe_z) has mean 0 and
\* population variance 1: the values sum to 0 and their squares sum to N.
C13_MeanZeroVarianceOne ==
    (pc \in {"_zscore", "safe_z"} /\ VaryingComplete) =>
        /\ res.status = "ok"
        /\ Len(res.col.num) = Len(df)
        /\ SumNum(res.col) = 0
        /\ res.col.p * SumNumSq(res.col) = res.col.q * Len(df)

\* _zscore standardized three or more wards with three different values
C13_Witness ==
    /\ pc = "_zscore"
    /\ VaryingComplete
    /\ Len(df) >= 3
    /\ Cardinality({df[i] : i \in DOMAIN df}) >= 3
    /\ res.status = "ok"
    /\ res.col.q > 1

(***************************************************************************)
(* Composite index: uix/index.py compute_isolation_index.                  *)
(*                                                                         *)
(* A table is [n |-> rows, cols |-> [name -> column]], every column a      *)
(* record [num, p, q] as above (a raw column has p = q = 1).               *)
(* Weights are integers (units of the smallest weight step).               *)
(* The index of a ward is a sum of terms weight * num * sqrt(p/q), one per *)
(* weighted metric; the terms are kept apart, metric by metric, since      *)
(* their square roots differ: the index column is [terms |-> [metric ->    *)
(* column]], its value on a row being NaN as soon as one term is NaN.      *)
(***************************************************************************)
IdxWards == 2       \* rows of an index input table: 1..IdxWards
MaxWeight == 2      \* weights: 1..MaxWeight

RawNames == {"a", "b"}

\* names a configuration may use: raw metrics, and the name of a derived
\* column
MetricNames == {"a", "b", "a_z"}

Raw(s) == [num |-> s, p |-> 1, q |-> 1]

\* a raw metric value of an index input table: missing, low or high
IdxCells == {NaN, Num(0), Num(1)}

IdxTables ==
    UNION {
        UNION {
            {[n |-> n, cols |-> c] : c \in [C -> {Raw(s) : s \in [1..n -> IdxCells]}]}
            : C \in SUBSET RawNames}
        : n \in 1..IdxWards}

MetricLists ==
    {<<>>} \cup {<<m>> : m \in MetricNames}
           \cup {ms \in [1..2 -> MetricNames] : ms[1] # ms[2]}

WeightSets == UNION {[W -> 1..MaxWeight] : W \in SUBSET MetricNames}

IdxConfigs ==
    {[metrics |-> ms, weights |-> w, index_col |-> "iso_index"] :
        ms \in MetricLists, w \in WeightSets}

\* the configuration of IsolationIndexConfig.__post_init__ and of
\* isolation_config_for_city, in hundredths
DefaultWeights ==
    [m \in {"pct_age65p", "pct_single65p", "poverty_rate"} |->
        IF m = "pct_age65p" THEN 40 ELSE 30]

Put(f, k, v) == [x \in DOMAIN f \cup {k} |-> IF x = k THEN v ELSE f[x]]

ZName(metric) == metric \o "_z"

\* 1) z-score each metric, in the order of config.metrics, on the working
\* copy `out`; the loop stops with KeyError at the first metric that is not
\* a column of `out`
RECURSIVE ZScoreLoop(_, _, _)
ZScoreLoop(out, z_cols, metrics) ==
    IF metrics = <<>> THEN [status |-> "ok", out |-> out, z_cols |-> z_cols]
    ELSE LET metric == Head(metrics) IN
         IF metric \notin DOMAIN out THEN Raised("KeyError: metric not found")
         ELSE ZScoreLoop(Put(out, ZName(metric), _zscore(out[metric].num).col),
                         Put(z_cols, metric, ZName(metric)),
                         Tail(metrics))

\* the weight is forgotten: out[z_name] is summed as it is
Scaled_WeightForgotten(weight, col) == col

\* weight * out[z_name]
Scaled(weight, col) ==
    [num |-> [i \in DOMAIN col.num |->
                 IF IsNaN(col.num[i]) THEN NaN ELSE Num(weight * col.num[i][1])],
     p |-> col.p, q |-> col.q]

\* 2) weighted sum over config.weights.items(); z_cols[metric] raises
\* KeyError for a weighted metric that was not standardized
RECURSIVE WeightedSum(_, _, _, _, _)
WeightedSum(idx, out, z_cols, weights, todo) ==
    IF todo = {} THEN [status |-> "ok", idx |-> idx]
    ELSE LET metric == CHOOSE m \in todo : TRUE IN
         IF metric \notin DOMAIN z_cols THEN Raised("KeyError: z_cols")
         ELSE WeightedSum(Put(idx, metric, Scaled(weights[metric], out[z_cols[metric]])),
                          out, z_cols, weights, todo \ {metric})

EmptyMap == [x \in {} |-> 0]

compute_isolation_index(table, config) ==
    LET z == ZScoreLoop(table.cols, EmptyMap, config.metrics) IN
    IF z.status = "error" THEN z
    ELSE LET s == WeightedSum(EmptyMap, z.out, z.z_cols, config.weights,
                              DOMAIN config.weights) IN
         IF s.status = "error" THEN s
         ELSE [status |-> "ok", n |-> table.n, rows |-> 1..table.n,
               cols |-> z.out, index |-> [terms |-> s.idx]]

\* the value of an index column on row i: NaN, or the coefficient of each
\* metric's square root
IndexAt(index, i) ==
    IF \E m \in DOMAIN index.terms : IsNaN(index.terms[m].num[i]) THEN NaN
    ELSE Num([m \in DOMAIN index.terms |-> index.terms[m].num[i][1]])

InitIndex ==
    /\ df \in IdxTables
    /\ cfg \in IdxConfigs
    /\ res = NoRes
    /\ pc = "start"

RunComputeIsolationIndex ==
    /\ pc = "start"
    /\ Returned("compute_isolation_index", compute_isolation_index(df, cfg))

NextIndex == RunComputeIsolationIndex

SpecIndex == InitIndex /\ [][NextIndex]_vars

Range(seq) == {seq[i] : i \in DOMAIN seq}

Computed == pc = "compute_isolation_index" /\ res.status = "ok"

\* the population z-score of a column as the Standardizer defines it:
\* (x - mean) / std with denominator N, all zeros when std is 0 or undefined
PopulationZ(s) ==
    IF Count(s) = 0 \/ VarN2(s) = 0
    THEN [num |-> [i \in DOMAIN s |-> Num(0)], p |-> 1, q |-> 1]
    ELSE [num |-> [i \in DOMAIN s |->
                      IF IsNaN(s[i]) THEN NaN
                      ELSE Num(Count(s) * s[i][1] - Total(s))],
          p |-> 1, q |-> VarN2(s)]

ExpectedIndexAt(i) ==
    LET W == DOMAIN cfg.weights
        z(m) == PopulationZ(df.cols[m].num)
    IN  IF \E m \in W : IsNaN(z(m).num[i]) THEN NaN
        ELSE Num([m \in W |-> cfg.weights[m] * z(m).num[i][1]])

C6_AbsentWeightedMetricFails ==
    (pc = "compute_isolation_index"
        /\ \E m \in DOMAIN cfg.weights : m \notin DOMAIN df.cols)
    => res.status = "error"

\* C9: before the composite index is computed every ward row with a missing
\* value in an input metric is dropped; no missing value becomes a zero (or
\* any numeric) standardized value.
C9_MissingRowsDroppedNeverZero ==
    Computed =>
        \A m \in Range(cfg.metrics) \cap DOMAIN df.cols : \A i \in 1..df.n :
            IsNaN(df.cols[m].num[i]) =>
                /\ i \notin res.rows
                /\ IsNaN(res.cols[ZName(m)].num[i])

(***************************************************************************)
(* compute_isolation_index run twice on the same table, the second time    *)
(* with every weight multiplied by the same constant.                      *)
(***************************************************************************)
MaxScale == 2       \* the constant multiplying the weights: -1..MaxScale

Scales == -1..MaxScale

\* tables with both raw metrics
LinearTables == {t \in IdxTables : DOMAIN t.cols = RawNames}

LinearConfigs ==
    {[metrics |-> ms, weights |-> w, index_col |-> "iso_index", scale |-> c] :
        ms \in {ms \in MetricLists : Range(ms) \subseteq RawNames},
        w \in UNION {[W -> 1..MaxWeight] : W \in SUBSET RawNames},
        c \in Scales}

\* IsolationIndexConfig with every weight multiplied by c
ScaleWeights(config, c) ==
    [config EXCEPT !.weights = [m \in DOMAIN config.weights |-> c * config.weights[m]]]

InitLinear ==
    /\ df \in LinearTables
    /\ cfg \in LinearConfigs
    /\ res = NoRes
    /\ pc = "start"

RunComputeTwice ==
    /\ pc = "start"
    /\ Returned("compute_isolation_index twice",
                [status |-> "ok",
                 base |-> compute_isolation_index(df, cfg),
                 scaled |-> compute_isolation_index(df, ScaleWeights(cfg, cfg.scale))])

NextLinear == RunComputeTwice

SpecLinear == InitLinear /\ [][NextLinear]_vars

ComputedTwice == pc = "compute_isolation_index twice" /\ res.base.status = "ok"

\* C14: the composite index is linear in its weights: multiplying every
\* weight by the same constant c multiplies the index of every ward by c
\* (a missing index stays missing) and leaves the standardized columns
\* unchanged.
C14_IndexLinearInWeights ==
    ComputedTwice =>
        /\ res.scaled.status = "ok"
        /\ res.scaled.cols = res.base.cols
        /\ DOMAIN res.scaled.index.terms = DOMAIN res.base.index.terms
        /\ \A m \in DOMAIN res.base.index.terms :
              LET b == res.base.index.terms[m]
                  s == res.scaled.index.terms[m]
              IN  /\ s.p = b.p /\ s.q = b.q
                  /\ \A i \in 1..df.n :
                        s.num[i] = IF IsNaN(b.num[i]) THEN NaN
                                   ELSE Num(cfg.scale * b.num[i][1])

\* both metrics carry a weight, the weights are doubled, and the index of
\* some ward is not zero
C14_Witness ==
    /\ ComputedTwice
    /\ cfg.scale = 2
    /\ DOMAIN cfg.weights = RawNames
    /\ \E i \in 1..df.n : \A m \in RawNames :
          /\ ~IsNaN(res.base.index.terms[m].num[i])
          /\ res.base.index.terms[m].num[i] # Num(0)

(***************************************************************************)
(* Range normalizer: cli/13_normalize_indices.py minmax_0_100.             *)
(* An output value is the exact fraction n / d, kept as <<n, d>>, d > 0.   *)
(***************************************************************************)
Frac(n, d) == Num(<<n, d>>)

RECURSIVE MinOver(_, _)
MinOver(s, S) ==
    LET i == CHOOSE j \in S : TRUE IN
    IF S = {i} THEN s[i][1]
    ELSE LET m == MinOver(s, S \ {i}) IN IF s[i][1] < m THEN s[i][1] ELSE m

RECURSIVE MaxOver(_, _)
MaxOver(s, S) ==
    LET i == CHOOSE j \in S : TRUE IN
    IF S = {i} THEN s[i][1]
    ELSE LET m == MaxOver(s, S \ {i}) IN IF s[i][1] > m THEN s[i][1] ELSE m

\* Series.min() / Series.max(): NaN is skipped; NaN when nothing is left
SeriesMin(s) == IF Present(s) = {} THEN NaN ELSE Num(MinOver(s, Present(s)))

SeriesMax(s) == IF Present(s) = {} THEN NaN ELSE Num(MaxOver(s, Present(s)))

\* the max == min guard is left out: 100 * 0 / 0 is NaN on every row
minmax_0_100_NoConstantGuard(series) ==
    LET min_val == SeriesMin(series)
        max_val == SeriesMax(series)
    IN  [i \in DOMAIN series |->
            IF IsNaN(min_val) \/ IsNaN(series[i]) THEN NaN
            ELSE IF max_val[1] - min_val[1] = 0 THEN NaN
            ELSE Frac(100 * (series[i][1] - min_val[1]),
                      max_val[1] - min_val[1])]

minmax_0_100(series) ==
    LET min_val == SeriesMin(series)
        max_val == SeriesMax(series)
    IN  IF IsNaN(min_val)
        \* NaN - NaN == 0 is False; 100 * (series - NaN) / NaN is NaN
        THEN [i \in DOMAIN series |-> NaN]
        ELSE IF max_val[1] - min_val[1] = 0
        THEN [i \in DOMAIN series |-> Frac(50, 1)]
        ELSE [i \in DOMAIN series |->
                 IF IsNaN(series[i]) THEN NaN
                 ELSE Frac(100 * (series[i][1] - min_val[1]),
                           max_val[1] - min_val[1])]

InitMinmax ==
    /\ df \in AllSeries
    /\ cfg = NoCfg
    /\ res = NoRes
    /\ pc = "start"

RunMinmax ==
    /\ pc = "start"
    /\ Returned("minmax_0_100", [status |-> "ok", col |-> minmax_0_100(df)])

NextMinmax == RunMinmax

SpecMinmax == InitMinmax /\ [][NextMinmax]_vars

Scaled0to100 == pc = "minmax_0_100"

InRange0to100(c) == ~IsNaN(c) /\ 0 <= c[1][1] /\ c[1][1] <= 100 * c[1][2]

IsValue(c, v) == ~IsNaN(c) /\ c[1][1] = v * c[1][2]

MaxGtMin == Present(df) # {} /\ SeriesMax(df)[1] > SeriesMin(df)[1]

MaxEqMin == Present(df) # {} /\ SeriesMax(df)[1] = SeriesMin(df)[1]

LisaWards == 2      \* wards of a LISA result: 1..LisaWards
MaxP == 6           \* p-values and thresholds, in hundredths: 1..MaxP

DefaultPThresh == 5

Quadrants == 1..4

LisaResults ==
    UNION {[q : [1..n -> Quadrants], p_sim : [1..n -> 1..MaxP]] : n \in 1..LisaWards}

\* cli/11_spatial_stats_osaka.py classify_lisa._cluster_label
OsakaClusterLabel(p, q, p_thresh) ==
    IF p >= p_thresh THEN "Not significant"
    ELSE IF q = 1 THEN "High-High"
    ELSE IF q = 2 THEN "Low-Low"
    ELSE IF q = 3 THEN "Low-High"
    ELSE IF q = 4 THEN "High-Low"
    ELSE "Not significant"

\* cli/11_spatial_stats_osaka.py classify_lisa
OsakaClassifyLisa(lisa, p_thresh) ==
    [i \in DOMAIN lisa.q |-> OsakaClusterLabel(lisa.p_sim[i], lisa.q[i], p_thresh)]

\* scripts/plot_tokyo_diri_and_lisa_maps.py classify_lisa
TokyoClassifyLisa(local_moran, p_thresh) ==
    [i \in DOMAIN local_moran.q |->
        LET sig == local_moran.p_sim[i] < p_thresh
            q == local_moran.q[i]
        IN  IF q = 4 /\ sig THEN "High-Low"
            ELSE IF q = 3 /\ sig THEN "Low-Low"
            ELSE IF q = 2 /\ sig THEN "Low-High"
            ELSE IF q = 1 /\ sig THEN "High-High"
            ELSE "Not significant"]

\* notebooks/osaka_isolation_analysis.py: sig = p_sim < 0.05, cluster_map
NotebookClusterMap(raw) ==
    CASE raw = 0 -> "Not significant"
      [] raw = 1 -> "High-High"
      [] raw = 2 -> "Low-High"
      [] raw = 3 -> "Low-Low"
      [] raw = 4 -> "High-Low"

NotebookClassifyLisa(lisa) ==
    [i \in DOMAIN lisa.q |->
        LET sig == lisa.p_sim[i] < DefaultPThresh
            lisa_cluster_raw == IF sig THEN lisa.q[i] ELSE 0
        IN  NotebookClusterMap(lisa_cluster_raw)]

InitLisa ==
    /\ df \in LisaResults
    /\ cfg \in [p_thresh : 1..MaxP]
    /\ res = NoRes
    /\ pc = "start"

Labelled(name, labels, threshold) ==
    Returned(name, [status |-> "ok", lisa_cluster |-> labels, threshold |-> threshold])

RunOsakaClassifyLisa ==
    /\ pc = "start"
    /\ Labelled("11_spatial_stats_osaka.classify_lisa",
                OsakaClassifyLisa(df, cfg.p_thresh), cfg.p_thresh)

RunTokyoClassifyLisa ==
    /\ pc = "start"
    /\ Labelled("plot_tokyo_diri_and_lisa_maps.classify_lisa",
                TokyoClassifyLisa(df, cfg.p_thresh), cfg.p_thresh)

RunNotebookClassifyLisa ==
    /\ pc = "start"
    /\ Labelled("osaka_isolation_analysis", NotebookClassifyLisa(df), DefaultPThresh)

\* cli/11_spatial_stats_osaka.py compute_local_moran, the only caller of the
\* Osaka classify_lisa: classify_lisa(gdf, lisa), the threshold left to its
\* default; main() has no option that reaches it
compute_local_moran(lisa) == OsakaClassifyLisa(lisa, DefaultPThresh)

RunComputeLocalMoran ==
    /\ pc = "start"
    /\ Labelled("11_spatial_stats_osaka.compute_local_moran",
                compute_local_moran(df), DefaultPThresh)

\* scripts/plot_tokyo_diri_and_lisa_maps.py main:
\* classify_lisa(lisa, p_thresh=args.p_thresh)
RunPlotTokyoMain ==
    /\ pc = "start"
    /\ Labelled("plot_tokyo_diri_and_lisa_maps.main",
                TokyoClassifyLisa(df, cfg.p_thresh), cfg.p_thresh)

NextLisa ==
    \/ RunOsakaClassifyLisa
    \/ RunTokyoClassifyLisa
    \/ RunNotebookClassifyLisa
    \/ RunComputeLocalMoran
    \/ RunPlotTokyoMain

SpecLisa == InitLisa /\ [][NextLisa]_vars

QuadrantName(q) ==
    CASE q = 1 -> "High-High"
      [] q = 2 -> "Low-High"
      [] q = 3 -> "Low-Low"
      [] q = 4 -> "High-Low"

\* C5: every LISA labelling routine gives a ward 'High-High', 'Low-High',
\* 'Low-Low' or 'High-Low' for quadrant code 1, 2, 3 or 4 when the ward's
\* simulated p-value is strictly below the routine's threshold, and
\* 'Not significant' otherwise (a p-value equal to the threshold included).
C5_LisaLabelByQuadrantAndP ==
    (pc # "start") =>
        \A i \in DOMAIN df.q :
            res.lisa_cluster[i] =
                IF df.p_sim[i] < res.threshold THEN QuadrantName(df.q[i])
                ELSE "Not significant"

(***************************************************************************)
(* Composite builders over a table of standardized columns read from CSV:  *)
(* scripts/build_designed_index.py, cli/11_build_final_index.py,           *)
(* cli/08_merge_access.py, and cli/03_build_index.py with the default      *)
(* configuration.  Weights are in thousandths (WeightUnit is 1.0).         *)
(***************************************************************************)
CompWards == 2      \* wards of a composite input table: 1..CompWards

WeightUnit == 1000

\* a value of a column read from CSV: below (0) or above (1) the others
ZVals == {Num(0), Num(1)}

TablesOver(names, n) ==
    {[n |-> n, cols |-> c] : c \in [names -> {Raw(s) : s \in [1..n -> ZVals]}]}

RawFeatureNames == {"pct_age65p", "pct_single65p", "poverty_rate"}

\* the columns read by build_designed_index.py and 11_build_final_index.py
StandardizedNames ==
    {"pct_age65p_z", "pct_single65p_z", "poverty_rate_z", "transit_z"}

\* the columns read by 08_merge_access.py after its merge
AccessNames == {"iso_index", "access_z"}

CompositeTables ==
    UNION {TablesOver(RawFeatureNames, n) \cup TablesOver(StandardizedNames, n)
               \cup TablesOver(AccessNames, n)
           : n \in 1..CompWards}

\* -col
Neg(col) ==
    [num |-> [i \in DOMAIN col.num |->
                 IF IsNaN(col.num[i]) THEN NaN ELSE Num(-col.num[i][1])],
     p |-> col.p, q |-> col.q]

\* 0.5 * x + 0.5 * y for two columns read from CSV: (x + y) * sqrt(1/4)
HalfSum(x, y) ==
    [num |-> [i \in DOMAIN x.num |->
                 IF IsNaN(x.num[i]) \/ IsNaN(y.num[i]) THEN NaN
                 ELSE Num(x.num[i][1] + y.num[i][1])],
     p |-> 1, q |-> 4]

\* the error names one missing column only
MissingColumns_OnlyFirst(required, table) ==
    LET missing == required \ DOMAIN table.cols IN
    IF missing = {} THEN {} ELSE {CHOOSE c \in missing : TRUE}

\* [c for c in required if c not in df.columns]
MissingColumns(required, table) ==
    {c \in required : c \notin DOMAIN table.cols}

Built(table, cols, weights, terms) ==
    [status |-> "ok", n |-> table.n, rows |-> 1..table.n, cols |-> cols,
     weights |-> weights, index |-> [terms |-> terms]]

\* scripts/build_designed_index.py: the weights of iri_designed
DesignedWeights ==
    [m \in {"pct_age65p_z", "pct_single65p_z", "poverty_rate_z", "neg_transit_z"} |->
        CASE m = "pct_age65p_z" -> 250
          [] m = "pct_single65p_z" -> 250
          [] m = "poverty_rate_z" -> 200
          [] m = "neg_transit_z" -> 150]

DesignedRequired ==
    {"pct_age65p_z", "pct_single65p_z", "poverty_rate_z", "transit_z"}

build_designed_index(table) ==
    IF MissingColumns(DesignedRequired, table) # {}
    THEN Raised("ValueError: missing required columns")
    ELSE LET cols == Put(table.cols, "neg_transit_z", Neg(table.cols["transit_z"]))
         IN  Built(table, cols, DesignedWeights,
                   [m \in DOMAIN DesignedWeights |-> Scaled(DesignedWeights[m], cols[m])])

\* the weights before the access component (0.20) was dropped
\* (cli/11_build_final_index.py, comment of step 3)
OriginalFinalWeights ==
    [c \in {"demo", "socio", "transit", "access"} |->
        CASE c = "demo" -> 400
          [] c = "socio" -> 300
          [] c = "transit" -> 100
          [] c = "access" -> 200]

\* the weights left as they were, not renormalized after dropping access
FinalWeights_NotRenormalized ==
    [c \in {"demo", "socio", "transit"} |-> OriginalFinalWeights[c]]

\* w_demo, w_socio, w_transit
FinalWeights ==
    [c \in {"demo", "socio", "transit"} |->
        CASE c = "demo" -> 500
          [] c = "socio" -> 375
          [] c = "transit" -> 125]

FinalComponentZ(c) == c \o "_component_z"

\* the negated transit column is written back over transit_z
build_final_index_NegatesInPlace(table) ==
    IF MissingColumns(DesignedRequired, table) # {}
    THEN Raised("ValueError: missing required columns")
    ELSE LET demo == HalfSum(table.cols["pct_age65p_z"], table.cols["pct_single65p_z"])
             socio == table.cols["poverty_rate_z"]
             transit == Neg(table.cols["transit_z"])
             c1 == Put(Put(Put(Put(table.cols, "transit_z", transit),
                               "demo_component", demo),
                           "socio_component", socio), "transit_component", transit)
             c2 == Put(Put(Put(c1, "demo_component_z", safe_z(demo.num).col),
                           "socio_component_z", safe_z(socio.num).col),
                       "transit_component_z", safe_z(transit.num).col)
         IN  Built(table, c2, FinalWeights,
                   [c \in DOMAIN FinalWeights |->
                       Scaled(FinalWeights[c], c2[FinalComponentZ(c)])])

build_final_index(table) ==
    IF MissingColumns(DesignedRequired, table) # {}
    THEN Raised("ValueError: missing required columns")
    ELSE LET demo == HalfSum(table.cols["pct_age65p_z"], table.cols["pct_single65p_z"])
             socio == table.cols["poverty_rate_z"]
             transit == Neg(table.cols["transit_z"])
             c1 == Put(Put(Put(table.cols, "demo_component", demo),
                           "socio_component", socio), "transit_component", transit)
             c2 == Put(Put(Put(c1, "demo_component_z", safe_z(demo.num).col),
                           "socio_component_z", safe_z(socio.num).col),
                       "transit_component_z", safe_z(transit.num).col)
         IN  Built(table, c2, FinalWeights,
                   [c \in DOMAIN FinalWeights |->
                       Scaled(FinalWeights[c], c2[FinalComponentZ(c)])])

\* cli/08_merge_access.py merge_access:
\* iso_index_with_access = iso_index - 0.3 * access_z
AccessWeights ==
    [m \in {"iso_index", "access_z"} |-> IF m = "iso_index" THEN 1000 ELSE -300]

merge_access(table) ==
    IF MissingColumns(AccessNames, table) # {}
    THEN Raised("KeyError")
    ELSE Built(table, table.cols, AccessWeights,
               [m \in DOMAIN AccessWeights |-> Scaled(AccessWeights[m], table.cols[m])])

\* IsolationIndexConfig() / isolation_config_for_city: the default weights
DefaultConfig ==
    [metrics |-> <<"pct_age65p", "pct_single65p", "poverty_rate">>,
     weights |-> [m \in DOMAIN DefaultWeights |-> 10 * DefaultWeights[m]],
     index_col |-> "iso_index"]

build_index(table) ==
    LET r == compute_isolation_index(table, DefaultConfig) IN
    IF r.status = "error" THEN r
    ELSE Built(table, r.cols, DefaultConfig.weights, r.index.terms)

InitComposite ==
    /\ df \in CompositeTables
    /\ cfg = NoCfg
    /\ res = NoRes
    /\ pc = "start"

RunBuildIndex ==
    /\ pc = "start"
    /\ Returned("03_build_index", build_index(df))

RunBuildDesignedIndex ==
    /\ pc = "start"
    /\ Returned("build_designed_index", build_designed_index(df))

RunBuildFinalIndex ==
    /\ pc = "start"
    /\ Returned("11_build_final_index", build_final_index(df))

RunMergeAccess ==
    /\ pc = "start"
    /\ Returned("08_merge_access", merge_access(df))

NextComposite ==
    \/ RunBuildIndex
    \/ RunBuildDesignedIndex
    \/ RunBuildFinalIndex
    \/ RunMergeAccess

SpecComposite == InitComposite /\ [][NextComposite]_vars

WeightSum(weights) == SumOver(weights, DOMAIN weights)

FinalBuilt == pc = "11_build_final_index" /\ res.status = "ok"

\* C7: with the access component (0.20) dropped, the weights applied to
\* build iso_final are the remaining original weights (0.40, 0.30, 0.10)
\* rescaled proportionally: they sum to exactly 1.0 and keep the ratios
\* 4:3:1, and iso_final is these weights times the standardized components.
C7_FinalWeightsRenormalized ==
    FinalBuilt =>
        /\ DOMAIN res.weights = DOMAIN OriginalFinalWeights \ {"access"}
        /\ WeightSum(res.weights) = WeightUnit
        /\ \A c, d \in DOMAIN res.weights :
              res.weights[c] * OriginalFinalWeights[d]
                  = res.weights[d] * OriginalFinalWeights[c]
        /\ \A c \in DOMAIN res.weights :
              res.index.terms[c] = Scaled(res.weights[c], res.cols[FinalComponentZ(c)])

\* iso_final was built from three components that all vary across wards
C7_Witness ==
    /\ FinalBuilt
    /\ \E i \in 1..df.n : \A c \in DOMAIN res.weights :
          res.index.terms[c].num[i] # Num(0)

\* C8: every weight set the repository uses to build a composite index
\* (default iso_index, designed D-IRI, final index, access-adjusted index)
\* consists of non-negative weights that sum to 1.0.
C8_WeightSetsNonNegativeSumToOne ==
    (pc # "start" /\ res.status = "ok") =>
        /\ \A m \in DOMAIN res.weights : res.weights[m] >= 0
        /\ WeightSum(res.weights) = WeightUnit

(***************************************************************************)
(* Joins of a metric table with the ward polygons on the ward identifier:  *)
(* cli/04_validate_spatial.py, cli/11_spatial_stats_osaka.py and           *)
(* scripts/plot_tokyo_diri_and_lisa_maps.py.  A string is a sequence of    *)
(* one-character strings.                                                  *)
(***************************************************************************)
JoinWards == 2      \* wards of a joined table: 1..JoinWards

\* width of a JIS municipality code: zfill(5)
JoinWidth == 5

\* JIS codes of three wards (Sapporo Chuo-ku is written 01101)
WardCodes == {1101, 13101, 27102}

DigitChars == <<"0", "1", "2", "3", "4", "5", "6", "7", "8", "9">>

\* str(n) of a non-negative integer
RECURSIVE DigitsOf(_)
DigitsOf(n) ==
    IF n < 10 THEN <<DigitChars[n + 1]>>
    ELSE Append(DigitsOf(n \div 10), DigitChars[(n % 10) + 1])

IntId(n) == [type |-> "int", n |-> n, chars |-> <<>>]

StrId(chars) == [type |-> "str", n |-> 0, chars |-> chars]

\* Series.astype(str)
AsTypeStr(id) == IF id.type = "int" THEN DigitsOf(id.n) ELSE id.chars

\* str.strip()
RECURSIVE Strip(_)
Strip(chars) ==
    IF chars = <<>> THEN chars
    ELSE IF Head(chars) = " " THEN Strip(Tail(chars))
    ELSE IF chars[Len(chars)] = " " THEN Strip(SubSeq(chars, 1, Len(chars) - 1))
    ELSE chars

\* str.zfill(width)
RECURSIVE ZFill(_, _)
ZFill(chars, width) ==
    IF Len(chars) >= width THEN chars ELSE ZFill(<<"0">> \o chars, width)

\* the ways a file can write the identifier of ward w as text
StrForms(w) ==
    {StrId(ws \o digits \o ws) :
        ws \in {<<>>, <<" ">>},
        digits \in {DigitsOf(w), ZFill(DigitsOf(w), JoinWidth)}}

\* an identifier column of the wards W: int64, or text
IdColumns(W) ==
    {[w \in W |-> IntId(w)]}
        \cup {f \in [W -> UNION {StrForms(w) : w \in W}] : \A w \in W : f[w] \in StrForms(w)}

JoinInputs ==
    UNION {[wards : {W}, ward_jis : IdColumns(W), N03_007 : IdColumns(W)]
           : W \in {V \in SUBSET WardCodes : Cardinality(V) \in 1..JoinWards}}

\* wards.merge(df, left_on="N03_007", right_on="ward_jis"): the matched pairs
Merge(W, polygon_key, metric_key) ==
    {pair \in W \X W : polygon_key[pair[1]] = metric_key[pair[2]]}

Joined(polygon_key, metric_key, rows) ==
    [status |-> "ok", N03_007 |-> polygon_key, ward_jis |-> metric_key, rows |-> rows]

\* .astype(str).str.strip().str.zfill(5)
Harmonize(col) == [w \in DOMAIN col |-> ZFill(Strip(AsTypeStr(col[w])), JoinWidth)]

\* cli/04_validate_spatial.py load_data, build_tokyo_choropleth
validate_spatial(in) ==
    LET metric_key == Harmonize(in.ward_jis)
        polygon_key == Harmonize(in.N03_007)
    IN  Joined(polygon_key, metric_key, Merge(in.wards, polygon_key, metric_key))

\* scripts/plot_tokyo_diri_and_lisa_maps.py main: left merge, then the
\* polygons without an index value are dropped
plot_tokyo_diri_and_lisa_maps(in) ==
    LET metric_key == Harmonize(in.ward_jis)
        polygon_key == Harmonize(in.N03_007)
    IN  Joined(polygon_key, metric_key, Merge(in.wards, polygon_key, metric_key))

\* cli/11_spatial_stats_osaka.py load_and_merge
load_and_merge(in) ==
    LET polygon_key == [w \in in.wards |-> AsTypeStr(in.N03_007[w])]
        metric_key == [w \in in.wards |-> AsTypeStr(in.ward_jis[w])]
        gdf == Merge(in.wards, polygon_key, metric_key)
    IN  IF gdf = {} THEN Raised("ValueError: Merge produced no rows")
        ELSE Joined(polygon_key, metric_key, gdf)

InitJoin ==
    /\ df \in JoinInputs
    /\ cfg = NoCfg
    /\ res = NoRes
    /\ pc = "start"

RunValidateSpatial ==
    /\ pc = "start"
    /\ Returned("04_validate_spatial", validate_spatial(df))

RunPlotTokyoLisaMaps ==
    /\ pc = "start"
    /\ Returned("plot_tokyo_diri_and_lisa_maps", plot_tokyo_diri_and_lisa_maps(df))

RunLoadAndMerge ==
    /\ pc = "start"
    /\ Returned("11_spatial_stats_osaka.load_and_merge", load_and_merge(df))

NextJoin ==
    \/ RunValidateSpatial
    \/ RunPlotTokyoLisaMaps
    \/ RunLoadAndMerge

SpecJoin == InitJoin /\ [][NextJoin]_vars

\* the canonical fixed-width zero-padded string of ward w
Canonical(w) == ZFill(DigitsOf(w), JoinWidth)

\* C10: at every join of a metric table with the ward polygons, both
\* identifier columns are first converted to the same canonical fixed-width
\* zero-padded string, so two identifiers of the same ward (integer or
\* text, zero-padded or not, with or without surrounding whitespace) match.
C10_JoinKeysCanonicalized ==
    (pc # "start") =>
        /\ res.status = "ok"
        /\ \A w \in df.wards :
              /\ res.ward_jis[w] = Canonical(w)
              /\ res.N03_007[w] = Canonical(w)
              /\ <<w, w>> \in res.rows

(***************************************************************************)
(* PCA indices: cli/07_pca_iso_index.py compute_pca_index (iso_index_pca)  *)
(* and cli/12_model_tokyo_indices.py, cli/12_model_osaka_indices.py        *)
(* (iri_pca).  The first principal component scores are the dominant       *)
(* eigenvector of the Gram matrix of the centred predictors, known up to   *)
(* a positive factor and up to sign.                                       *)
(***************************************************************************)
PcaWards == 2       \* wards of a PCA input table: 2..PcaWards

MaxScore == 2       \* principal scores, up to a positive factor: -MaxScore..MaxScore

Pca07Predictors == <<"pct_age65p_z", "pct_single65p_z", "poverty_rate_z">>

OsakaPredictors == <<"pct_age65p_z", "pct_single65p_z", "poverty_rate_z", "transit_z">>

TokyoPredictors ==
    <<"pct_age65p_z", "pct_single65p_z", "poverty_rate_z", "access_z", "transit_z">>

\* a column of whole numbers, each standing for value / sqrt(q)
IntColumn(f, n, q) == [num |-> [i \in 1..n |-> Num(f[i])], p |-> 1, q |-> q]

Val(col, i) == col.num[i][1]

\* iso_index as cli/03_build_index.py wrote it into the file, in hundredths
WithIsoIndex(table) ==
    [table EXCEPT !.cols = Put(@, "iso_index",
        IntColumn([i \in 1..table.n |->
                      SumOver([m \in DOMAIN DefaultWeights |->
                                  DefaultWeights[m] * Val(table.cols[ZName(m)], i)],
                              DOMAIN DefaultWeights)],
                  table.n, 10000))]

\* iri_designed as scripts/build_designed_index.py wrote it into the file,
\* in thousandths
WithDesigned(table) ==
    LET b == build_designed_index(table) IN
    [table EXCEPT !.cols = Put(@, "iri_designed",
        IntColumn([i \in 1..table.n |->
                      SumOver([m \in DOMAIN DesignedWeights |->
                                  Val(b.index.terms[m], i)],
                              DOMAIN DesignedWeights)],
                  table.n, WeightUnit * WeightUnit))]

\* the copy is handed to the decomposition without any sign flip
Matrix_NothingNegated(table, predictors, negated) ==
    [i \in 1..table.n |->
        [k \in DOMAIN predictors |-> Val(table.cols[predictors[k]], i)]]

\* X = df[predictors], with the columns of negated multiplied by -1
Matrix(table, predictors, negated) ==
    [i \in 1..table.n |->
        [k \in DOMAIN predictors |->
            IF predictors[k] \in negated THEN -Val(table.cols[predictors[k]], i)
            ELSE Val(table.cols[predictors[k]], i)]]

ColumnTotal(X, k) == SumOver([i \in DOMAIN X |-> X[i][k]], DOMAIN X)

\* n * (X - column means): PCA centres the columns
Centred(X) ==
    [i \in DOMAIN X |-> [k \in DOMAIN X[i] |-> Len(X) * X[i][k] - ColumnTotal(X, k)]]

Dot(a, b) == SumOver([k \in DOMAIN a |-> a[k] * b[k]], DOMAIN a)

\* trace of the Gram matrix Xc * Xc^T: n^2 times the total variance
Trace(Xc) == SumOver([i \in DOMAIN Xc |-> Dot(Xc[i], Xc[i])], DOMAIN Xc)

\* one vector for each direction of scores
ScoreVectors(n) ==
    {u \in [1..n -> -MaxScore..MaxScore] :
        /\ SumOver(u, 1..n) = 0
        /\ \E i \in 1..n : u[i] > 0 /\ \A j \in 1..(i - 1) : u[j] = 0
        /\ \A k \in 2..MaxScore : \E i \in 1..n : u[i] % k # 0}

AllScoreVectors == {u : u \in UNION {ScoreVectors(n) : n \in 2..PcaWards}}

\* G u = lambda u with 2 lambda > trace(G), for G = Xc * Xc^T: u spans the
\* scores of the first principal axis
IsPrincipal(Xc, trace, u) ==
    LET w == [k \in DOMAIN Xc[1] |-> SumOver([i \in DOMAIN Xc |-> Xc[i][k] * u[i]], DOMAIN Xc)]
        uGu == Dot(w, w)
        uu == Dot(u, u)
    IN  /\ 2 * uGu > trace * uu
        /\ \A i \in DOMAIN Xc : Dot(Xc[i], w) * uu = uGu * u[i]

\* pca.fit_transform(X)[:, 0] up to a positive factor, in both signs; zeros
\* when X is constant
PrincipalScores(X) ==
    LET Xc == Centred(X)
        n == Len(X)
        trace == Trace(Xc)
        axis == {u \in AllScoreVectors : Len(u) = n /\ IsPrincipal(Xc, trace, u)}
    IN  IF trace = 0 THEN {[i \in 1..n |-> 0]}
        ELSE axis \cup {[i \in 1..n |-> -u[i]] : u \in axis}

\* (scores - scores.mean()) / scores.std(ddof=0), unguarded
ScoresZ(u) ==
    LET s == [i \in DOMAIN u |-> Num(u[i])] IN
    IF StdIsZero(s, 0) THEN AllNaN(s) ELSE Standardized(s, 0)

\* n^2 times the covariance of two columns without missing values
CovN2(a, b) ==
    LET n == Len(a.num) IN
    n * SumOver([i \in 1..n |-> Val(a, i) * Val(b, i)], 1..n)
        - SumOver([i \in 1..n |-> Val(a, i)], 1..n) * SumOver([i \in 1..n |-> Val(b, i)], 1..n)

HasNaN(col) == \E i \in DOMAIN col.num : IsNaN(col.num[i])

\* np.corrcoef(a, b)[0, 1] < 0; a NaN correlation is not below zero
CorrNegative(a, b) == ~HasNaN(a) /\ ~HasNaN(b) /\ CovN2(a, b) < 0

PcaTable(table, name, col) ==
    [status |-> "ok", n |-> table.n, cols |-> Put(table.cols, name, col), pca |-> name]

\* cli/07_pca_iso_index.py compute_pca_index on a table that has the three
\* z columns; u is the score vector the decomposition returned
compute_pca_index(table, u) ==
    LET scores_z == ScoresZ(u)
        aligned == IF "iso_index" \in DOMAIN table.cols
                      /\ CorrNegative(scores_z, table.cols["iso_index"])
                   THEN Neg(scores_z) ELSE scores_z
    IN  PcaTable(table, "iso_index_pca", aligned)

\* cli/12_model_tokyo_indices.py, cli/12_model_osaka_indices.py main: X is
\* the matrix of the OLS fit, X_pca the copy handed to the decomposition,
\* u the score vector the decomposition returned
model_indices(table, predictors, negated, u) ==
    [status |-> "ok", n |-> table.n,
     cols |-> Put(table.cols, "iri_pca", ScoresZ(u)), pca |-> "iri_pca",
     predictors |-> predictors,
     X |-> Matrix(table, predictors, {}),
     X_pca |-> Matrix(table, predictors, negated)]

\* the input files: whole-number z columns, with the composite column the
\* earlier stage derived from them
PcaInputs(n) ==
    TablesOver(Range(Pca07Predictors), n)
        \cup {WithIsoIndex(t) : t \in TablesOver(Range(Pca07Predictors), n)}
        \cup {WithDesigned(t) : t \in TablesOver(Range(OsakaPredictors), n)}
        \cup {WithDesigned(t) : t \in TablesOver(Range(TokyoPredictors), n)}

\* the tables whose first principal component is one of the score vectors
ExactPc1(table) ==
    \A predictors \in {Pca07Predictors, OsakaPredictors, TokyoPredictors} :
        Range(predictors) \subseteq DOMAIN table.cols
            => PrincipalScores(Matrix(table, predictors, {})) # {}

InitPca ==
    /\ \E n \in 2..PcaWards : df \in {t \in PcaInputs(n) : ExactPc1(t)}
    /\ cfg = NoCfg
    /\ res = NoRes
    /\ pc = "start"

RunComputePcaIndex ==
    /\ pc = "start"
    /\ \E u \in PrincipalScores(Matrix(df, Pca07Predictors, {})) :
          Returned("07_pca_iso_index", compute_pca_index(df, u))

RunModelTokyoIndices ==
    /\ pc = "start"
    /\ IF MissingColumns(Range(TokyoPredictors) \cup {"iri_designed"}, df) # {}
       THEN Returned("12_model_tokyo_indices", Raised("ValueError: missing required columns"))
       ELSE \E u \in PrincipalScores(Matrix(df, TokyoPredictors, {"access_z", "transit_z"})) :
               Returned("12_model_tokyo_indices",
                        model_indices(df, TokyoPredictors, {"access_z", "transit_z"}, u))

RunModelOsakaIndices ==
    /\ pc = "start"
    /\ IF MissingColumns(Range(OsakaPredictors) \cup {"iri_designed"}, df) # {}
       THEN Returned("12_model_osaka_indices", Raised("ValueError: missing required columns"))
       ELSE \E u \in PrincipalScores(Matrix(df, OsakaPredictors, {"transit_z"})) :
               Returned("12_model_osaka_indices",
                        model_indices(df, OsakaPredictors, {"transit_z"}, u))

NextPca ==
    \/ RunComputePcaIndex
    \/ RunModelTokyoIndices
    \/ RunModelOsakaIndices

SpecPca == InitPca /\ [][NextPca]_vars

\* the composite index a PCA index column is compared with
CompositeOf(pca) == IF pca = "iri_pca" THEN "iri_designed" ELSE "iso_index"

\* C4: every PCA index column written (iso_index_pca, iri_pca) has a
\* non-negative Pearson correlation with the composite index of the same
\* wards, whichever of its two signs the decomposition returned.
C4_PcaIndexNonNegativelyCorrelated ==
    (pc # "start" /\ res.status = "ok" /\ CompositeOf(res.pca) \in DOMAIN res.cols) =>
        ~CorrNegative(res.cols[res.pca], res.cols[CompositeOf(res.pca)])

(***************************************************************************)
(* Spatial statistics entry points: the ward polygons are merged with the  *)
(* index table, queen contiguity weights are built on the merged frame     *)
(* and Moran's I / LISA are computed on its iri_designed column:           *)
(* cli/11_spatial_stats_osaka.py main, scripts/plot_tokyo_diri_and_lisa_   *)
(* maps.py main, notebooks/osaka_isolation_analysis.py cells 4-8,          *)
(* notebooks/tokyo_isolation_analysis.py cell 14, and the map of           *)
(* cli/04_validate_spatial.py.  Ward identifiers are the join keys.        *)
(***************************************************************************)
SpatialWards == 3   \* ward identifiers: 1..SpatialWards

WardIds == 1..SpatialWards

\* the unordered pairs of polygons that can share a border or a corner
Borders(P) == {{a, b} : a \in P, b \in P} \ {{a} : a \in P}

\* the GeoJSON (polygons P with their queen adjacency) and the index CSV
\* (iri_designed of the wards it lists, possibly missing); at least one
\* polygon has an index value
SpatialInputs(P) ==
    {in \in [polygons : {P}, adj : SUBSET Borders(P),
             iri_designed : UNION {[T -> IdxCells] : T \in SUBSET WardIds}] :
        \E w \in P : w \in DOMAIN in.iri_designed /\ ~IsNaN(in.iri_designed[w])}

\* rows of a frame in file order (ascending identifiers)
RECURSIVE SortedSeq(_)
SortedSeq(S) ==
    IF S = {} THEN <<>>
    ELSE LET least == CHOOSE a \in S : \A b \in S : a <= b
         IN  <<least>> \o SortedSeq(S \ {least})

\* wards.merge(df, how="inner"): the polygons with a row in the index table
InnerMerge(in) == {w \in in.polygons : w \in DOMAIN in.iri_designed}

\* iri_designed of a merged frame; NaN for a polygon without a row (how="left")
MergedValue(in, w) == IF w \in DOMAIN in.iri_designed THEN in.iri_designed[w] ELSE NaN

\* Queen.from_dataframe(gdf): the neighbours of each row among the rows
Queen(rows, adj) == [w \in rows |-> {v \in rows : {w, v} \in adj}]

Islands(w) == {a \in DOMAIN w : w[a] = {}}

\* libpysal reports the wards without neighbours unless silenced
IslandWarnings(w, silence_warnings) ==
    IF silence_warnings \/ Islands(w) = {} THEN {}
    ELSE {[kind |-> "islands", wards |-> Islands(w)]}

\* the product of the numbers of S
RECURSIVE ProdOver(_)
ProdOver(S) ==
    IF S = {} THEN 1
    ELSE LET k == CHOOSE j \in S : TRUE IN k * ProdOver(S \ {k})

\* a common multiple of the neighbour counts of the rows that have neighbours
RowScale(w) == ProdOver({Cardinality(w[a]) : a \in DOMAIN w} \ {0})

\* esda Moran(y, w).I with w.transform = "r": z = y - mean(y),
\* I = n / S0 * SUM_i z_i * SUM_j w_ij z_j / SUM_i z_i^2, every row with
\* neighbours weighting each of them 1/(number of neighbours), S0 the
\* number of such rows.  NaN when a value is NaN, and when the division
\* is 0/0 (constant values, or no row with neighbours).  The statistic is
\* kept as the fraction num/den, den > 0; z is held as n*z.
Moran(y, w, ids) ==
    LET n == Len(y)
        rows == DOMAIN ids
        z == [i \in rows |-> n * y[i][1] - Total(y)]
        at == [a \in DOMAIN w |-> CHOOSE i \in rows : ids[i] = a]
        L == RowScale(w)
        lag == [i \in rows |->
                  IF w[ids[i]] = {} THEN 0
                  ELSE (L \div Cardinality(w[ids[i]]))
                         * SumOver([a \in w[ids[i]] |-> z[at[a]]], w[ids[i]])]
        inum == SumOver([i \in rows |-> z[i] * lag[i]], rows)
        z2ss == SumOver([i \in rows |-> z[i] * z[i]], rows)
        s0 == Cardinality(DOMAIN w \ Islands(w))
    IN  IF \E i \in rows : IsNaN(y[i]) THEN [I |-> NaN]
        ELSE IF s0 * L * z2ss = 0 THEN [I |-> NaN]
        ELSE [I |-> Frac(n * inum, s0 * L * z2ss)]

\* a run that built weights on the frame gdf and computed the stages
SpatialRun(in, gdf, silence_warnings, warnings, stages) ==
    LET ids == SortedSeq(gdf)
        w == Queen(gdf, in.adj)
        y == [i \in DOMAIN ids |-> MergedValue(in, ids[i])]
    IN  [status |-> "ok", gdf |-> ids, w |-> w, w_ids |-> SortedSeq(DOMAIN w),
         y |-> y, moran |-> Moran(y, w, ids),
         warnings |-> warnings \cup IslandWarnings(w, silence_warnings),
         stages |-> stages]

\* cli/11_spatial_stats_osaka.py main: load_and_merge, compute_global_moran,
\* compute_local_moran, save_results
spatial_stats_osaka(in) ==
    LET gdf == InnerMerge(in) IN
    IF gdf = {} THEN Raised("ValueError: Merge produced no rows")
    ELSE SpatialRun(in, gdf, FALSE, {}, {"moran", "lisa", "map"})

\* scripts/plot_tokyo_diri_and_lisa_maps.py main: left merge, the polygons
\* without an index value are counted in a printed warning and dropped
plot_tokyo_maps(in) ==
    LET missing == {w \in in.polygons : IsNaN(MergedValue(in, w))}
        warnings == IF missing = {} THEN {}
                    ELSE {[kind |-> "polygons missing iri_designed",
                           count |-> Cardinality(missing)]}
    IN  SpatialRun(in, in.polygons \ missing, FALSE, warnings, {"moran", "lisa", "map"})

\* notebooks/osaka_isolation_analysis.py cells 4-8: left merge, nothing dropped
osaka_notebook(in) == SpatialRun(in, in.polygons, FALSE, {}, {"moran", "lisa", "map"})

\* notebooks/tokyo_isolation_analysis.py cell 14: inner merge, weights with
\* silence_warnings=True, global Moran's I
tokyo_notebook(in) == SpatialRun(in, InnerMerge(in), TRUE, {}, {"moran"})

\* cli/04_validate_spatial.py build_tokyo_choropleth: inner merge and map;
\* no weights are built
build_tokyo_choropleth(in) ==
    LET ids == SortedSeq(InnerMerge(in)) IN
    [status |-> "ok", gdf |-> ids, w |-> <<>>, w_ids |-> <<>>,
     y |-> [i \in DOMAIN ids |-> MergedValue(in, ids[i])],
     warnings |-> {}, stages |-> {"map"}]

InitSpatial ==
    /\ \E P \in (SUBSET WardIds) \ {{}} : df \in SpatialInputs(P)
    /\ cfg = NoCfg
    /\ res = NoRes
    /\ pc = "start"

RunSpatialStatsOsaka ==
    /\ pc = "start"
    /\ Returned("11_spatial_stats_osaka.main", spatial_stats_osaka(df))

RunPlotTokyoMaps ==
    /\ pc = "start"
    /\ Returned("plot_tokyo_diri_and_lisa_maps.main", plot_tokyo_maps(df))

RunOsakaNotebook ==
    /\ pc = "start"
    /\ Returned("osaka_isolation_analysis.cells_4_8", osaka_notebook(df))

RunTokyoNotebook ==
    /\ pc = "start"
    /\ Returned("tokyo_isolation_analysis.cell_14", tokyo_notebook(df))

RunBuildTokyoChoropleth ==
    /\ pc = "start"
    /\ Returned("04_validate_spatial.build_tokyo_choropleth", build_tokyo_choropleth(df))

NextSpatial ==
    \/ RunSpatialStatsOsaka
    \/ RunPlotTokyoMaps
    \/ RunOsakaNotebook
    \/ RunTokyoNotebook
    \/ RunBuildTokyoChoropleth

SpecSpatial == InitSpatial /\ [][NextSpatial]_vars

UnmatchedPolygons == df.polygons \ DOMAIN df.iri_designed

UnmatchedRows == DOMAIN df.iri_designed \ df.polygons

\* C11: whenever an identifier of the index table or of the polygon set
\* has no partner on the other side, the join step aborts with an error
\* that reports the number of unmatched identifiers on each side; no run
\* continues to Moran's I, LISA or mapping.
C11_UnmatchedJoinAborts ==
    (pc # "start" /\ (UnmatchedPolygons # {} \/ UnmatchedRows # {})) =>
        /\ res.status = "error"
        /\ "unmatched" \in DOMAIN res
        /\ res.unmatched = [polygons |-> Cardinality(UnmatchedPolygons),
                            rows |-> Cardinality(UnmatchedRows)]

\* the Tokyo or Osaka PCA builder ran to its end
ModelIndicesRan ==
    pc \in {"12_model_tokyo_indices", "12_model_osaka_indices"} /\ res.status = "ok"

\* the inputs where a higher value means less isolation
HigherIsBetter == {"access_z", "transit_z"}

\* C15: in the Tokyo and Osaka PCA builders the matrix handed to the
\* decomposition holds access_z / transit_z negated and the other
\* predictors as they are, and only that copy is touched: the matrix of the
\* OLS fit and every column of the written table keep their original sign.
C15_NegationOnPcaCopyOnly ==
    ModelIndicesRan =>
        /\ \A i \in 1..df.n : \A k \in DOMAIN res.predictors :
              /\ res.X[i][k] = Val(df.cols[res.predictors[k]], i)
              /\ res.X_pca[i][k] =
                    IF res.predictors[k] \in HigherIsBetter
                    THEN -Val(df.cols[res.predictors[k]], i)
                    ELSE Val(df.cols[res.predictors[k]], i)
        /\ \A c \in DOMAIN df.cols : res.cols[c] = df.cols[c]

\* the Tokyo builder ran on a table where access_z and transit_z are not 0
\* for some ward
C15_Witness ==
    /\ pc = "12_model_tokyo_indices"
    /\ res.status = "ok"
    /\ \E i \in 1..df.n :
          /\ Val(df.cols["access_z"], i) = 1 /\ Val(df.cols["transit_z"], i) = 1
          /\ Val(res.cols["access_z"], i) = 1 /\ Val(res.cols["transit_z"], i) = 1

\* the predictors the PCA routine that ran decomposes
PredictorsRead ==
    CASE pc = "12_model_tokyo_indices" -> TokyoPredictors
      [] pc = "12_model_osaka_indices" -> OsakaPredictors
      [] OTHER -> Pca07Predictors

\* all wards have identical standardized metrics: the projected scores
\* have zero variance
IdenticalWards ==
    /\ Range(PredictorsRead) \subseteq DOMAIN df.cols
    /\ \A m \in Range(PredictorsRead) : \A i \in 1..df.n :
          Val(df.cols[m], i) = Val(df.cols[m], 1)

\* C16: when the projected PCA scores have zero variance (all wards have
\* identical standardized metrics) the PCA step signals a failure; it never
\* returns a table with an index column made of NaN.
C16_ZeroVarianceScoresFail ==
    (pc # "start" /\ IdenticalWards) => res.status = "error"

\* an entry point that builds contiguity weights ran to its end
WeightsBuilt == pc # "start" /\ res.status = "ok" /\ "moran" \in res.stages

\* C17: in every spatial-statistics run the contiguity weights and the
\* value vector handed to Moran's I / LISA cover the same wards in the same
\* order, and none of these wards has a missing index value (such a ward is
\* removed from both before the adjacency is built).
C17_WeightsAndValuesAligned ==
    WeightsBuilt =>
        /\ res.w_ids = res.gdf
        /\ Len(res.y) = Len(res.w_ids)
        /\ \A i \in DOMAIN res.y : ~IsNaN(res.y[i])

\* C20: a ward without queen neighbours does not crash the
\* row-standardization, and every entry point that builds weights flags it
\* with a warning naming the isolated wards.
C20_IslandsFlagged ==
    (pc # "start" /\ res.status = "ok" /\ "moran" \in res.stages
        /\ Islands(res.w) # {}) =>
            \E warning \in res.warnings :
                warning.kind = "islands" /\ warning.wards # {}

\* the programs an analyst runs to get LISA labels
LisaEntryPoints ==
    {"11_spatial_stats_osaka.compute_local_moran",
     "plot_tokyo_diri_and_lisa_maps.main",
     "osaka_isolation_analysis"}

\* C19: every LISA entry point gates the cluster labels by the significance
\* threshold its caller configured (0.05 being only the default): a ward is
\* 'Not significant' exactly when its p-value is not below that threshold.
C19_ThresholdFromCaller ==
    (pc \in LisaEntryPoints) =>
        /\ res.threshold = cfg.p_thresh
        /\ \A i \in DOMAIN df.q :
              (res.lisa_cluster[i] = "Not significant")
                  <=> (df.p_sim[i] >= cfg.p_thresh)

(***************************************************************************)
(* Repeated LISA runs.  Moran_Local(y, w) is called without a seed by      *)
(* every entry point, and nothing in the repository seeds the random       *)
(* number generator, so the permutation p-values of a run are any values   *)
(* the permutation test can produce.  df is the quadrant code of each      *)
(* ward (fixed by the values and the weights), cfg.seed the seed the       *)
(* caller would like to use, res.runs the outcomes of the runs so far.     *)
(***************************************************************************)
MaxSeed == 2        \* seeds a caller may ask for: 1..MaxSeed
MaxRuns == 2        \* runs of one entry point on the same input

QuadrantCodes == UNION {[1..n -> Quadrants] : n \in 1..LisaWards}

InitSeed ==
    /\ df \in [q : QuadrantCodes]
    /\ cfg \in [seed : 1..MaxSeed, p_thresh : {DefaultPThresh}]
    /\ res = NoRes
    /\ pc = "start"

RunsSoFar == IF pc = "start" THEN <<>> ELSE res.runs

\* one run of an entry point: Moran_Local(y, w) draws its permutations from
\* the unseeded generator; the entry point then labels the wards
LisaRun(name, p_sim, labels) ==
    /\ pc \in {"start", name}
    /\ Len(RunsSoFar) < MaxRuns
    /\ Returned(name, [status |-> "ok",
                       runs |-> Append(RunsSoFar, [p_sim |-> p_sim,
                                                   lisa_cluster |-> labels])])

\* cli/11_spatial_stats_osaka.py compute_local_moran
RunOsakaLisa ==
    \E p_sim \in [DOMAIN df.q -> 1..MaxP] :
        LisaRun("11_spatial_stats_osaka.compute_local_moran twice", p_sim,
                compute_local_moran([q |-> df.q, p_sim |-> p_sim]))

\* scripts/plot_tokyo_diri_and_lisa_maps.py main, lines 140-146
RunTokyoLisa ==
    \E p_sim \in [DOMAIN df.q -> 1..MaxP] :
        LisaRun("plot_tokyo_diri_and_lisa_maps.main twice", p_sim,
                TokyoClassifyLisa([q |-> df.q, p_sim |-> p_sim], cfg.p_thresh))

NextSeed ==
    \/ RunOsakaLisa
    \/ RunTokyoLisa

SpecSeed == InitSeed /\ [][NextSeed]_vars

\* C18: two LISA runs on the same wards and values with the same seed give
\* identical p-values and identical cluster labels.
C18_SameSeedSameLisa ==
    (pc # "start" /\ Len(res.runs) = MaxRuns) =>
        \A i, j \in DOMAIN res.runs : res.runs[i] = res.runs[j]

\* every ward of the frame has the same index value
UniformValues ==
    /\ \A i \in DOMAIN res.y : ~IsNaN(res.y[i])
    /\ \A i, j \in DOMAIN res.y : res.y[i] = res.y[j]

\* C21: when the index value is the same for every ward, the Global
\* Moran's I step never computes, prints or stores a NaN statistic (it
\* reports the statistic as undefined instead).
C21_UniformValuesGuarded ==
    (WeightsBuilt /\ Islands(res.w) = {} /\ UniformValues) => ~IsNaN(res.moran.I)

(***************************************************************************)
(* Global Moran's I of cli/11_spatial_stats_osaka.py on a regular grid of  *)
(* square ward polygons: r rows of c wards, ward k in row (k-1) \div c and *)
(* column (k-1) % c, with a two-valued pattern as index values.            *)
(***************************************************************************)
MaxSide == 3        \* rows and columns of a grid: 1..MaxSide

GridRow(k, c) == (k - 1) \div c

GridCol(k, c) == (k - 1) % c

Near(a, b) == a - b \in {-1, 0, 1}

\* rook contiguity: only a shared edge makes two squares neighbours
QueenGridAdj_SharedEdgeOnly(r, c) ==
    {{p[1], p[2]} : p \in {q \in (1..(r * c)) \X (1..(r * c)) :
        \/ /\ GridRow(q[1], c) = GridRow(q[2], c)
           /\ GridCol(q[1], c) - GridCol(q[2], c) \in {-1, 1}
        \/ /\ GridCol(q[1], c) = GridCol(q[2], c)
           /\ GridRow(q[1], c) - GridRow(q[2], c) \in {-1, 1}}}

\* Queen.from_dataframe on the grid: squares that share an edge or a corner
QueenGridAdj(r, c) ==
    {{p[1], p[2]} : p \in {q \in (1..(r * c)) \X (1..(r * c)) :
        /\ q[1] # q[2]
        /\ Near(GridRow(q[1], c), GridRow(q[2], c))
        /\ Near(GridCol(q[1], c), GridCol(q[2], c))}}

Patterns == {"checkerboard", "row stripes", "column stripes"}

\* index value of ward k: hi on the even fields of the pattern, lo on the odd
PatternValue(pattern, k, c, hi, lo) ==
    LET field == CASE pattern = "checkerboard" -> GridRow(k, c) + GridCol(k, c)
                   [] pattern = "row stripes" -> GridRow(k, c)
                   [] pattern = "column stripes" -> GridCol(k, c)
    IN  IF field % 2 = 0 THEN Num(hi) ELSE Num(lo)

GridInput(r, c, pattern, hi, lo) ==
    [polygons |-> 1..(r * c), adj |-> QueenGridAdj(r, c),
     iri_designed |-> [k \in 1..(r * c) |-> PatternValue(pattern, k, c, hi, lo)],
     r |-> r, c |-> c, pattern |-> pattern]

InitGrid ==
    /\ \E r \in 1..MaxSide, c \in 1..MaxSide, pattern \in Patterns,
          hi \in 0..MaxVal, lo \in 0..MaxVal :
            df = GridInput(r, c, pattern, hi, lo)
    /\ cfg = NoCfg
    /\ res = NoRes
    /\ pc = "start"

RunGridMoran ==
    /\ pc = "start"
    /\ Returned("11_spatial_stats_osaka.main on a grid", spatial_stats_osaka(df))

NextGrid ==
    \/ RunGridMoran

SpecGrid == InitGrid /\ [][NextGrid]_vars

\* Moran's I was computed on a checkerboard of two different values
CheckerboardRun ==
    /\ pc # "start"
    /\ df.pattern = "checkerboard"
    /\ df.r * df.c >= 2
    /\ df.iri_designed[1] # df.iri_designed[2]

MoranNum == res.moran.I[1][1]

MoranDen == res.moran.I[1][2]

\* C22: under queen contiguity with row-standardized weights, Global
\* Moran's I of a perfectly alternating checkerboard on a regular grid is
\* strongly negative (-1/2 or less).
C22_CheckerboardStronglyNegative ==
    CheckerboardRun =>
        /\ ~IsNaN(res.moran.I)
        /\ 2 * MoranNum <= -MoranDen

\* C22 amended: every ward of the grid has a neighbour (S0 = n) and I of
\* the checkerboard is negative; it is -1 on a single row or column of
\* wards, where queen contiguity has no diagonal neighbours, and lies
\* between -1/3 and 0 on a grid of at least two rows and two columns,
\* where the diagonal neighbours carry the ward's own value.
C22_CheckerboardNegative ==
    CheckerboardRun =>
        /\ Islands(res.w) = {}
        /\ ~IsNaN(res.moran.I)
        /\ MoranNum < 0
        /\ (df.r = 1 \/ df.c = 1) => MoranNum = -MoranDen
        /\ (df.r >= 2 /\ df.c >= 2) => 3 * MoranNum >= -MoranDen

\* a checkerboard on a grid with diagonal neighbours got its statistic
C22_Witness ==
    /\ CheckerboardRun
    /\ df.r >= 2 /\ df.c >= 3
    /\ ~IsNaN(res.moran.I)
    /\ 3 * MoranNum > -MoranDen

(***************************************************************************)
(* A caller holding a table calls an index builder: df is the caller's     *)
(* table (the object the builder receives), res.before the table as it was *)
(* before the call, and res.out what the builder returned.                 *)
(***************************************************************************)
\* the tables a caller passes: raw metrics, standardized metrics, or a table
\* that lacks some of them
FrameInputs(n) ==
    TablesOver(RawFeatureNames, n)
        \cup TablesOver(Range(Pca07Predictors), n)
        \cup TablesOver({"pct_age65p"}, n)

\* cli/07_pca_iso_index.py lines 56-58: df["<metric>_z"] = zscore(df[metric]),
\* assigned on the caller's frame
WithZScores(table) ==
    [table EXCEPT !.cols =
        [c \in DOMAIN table.cols \cup Range(Pca07Predictors) |->
            CASE c = "pct_age65p_z" -> zscore(table.cols["pct_age65p"].num).col
              [] c = "pct_single65p_z" -> zscore(table.cols["pct_single65p"].num).col
              [] c = "poverty_rate_z" -> zscore(table.cols["poverty_rate"].num).col
              [] OTHER -> table.cols[c]]]

\* the table whose three z columns the decomposition reads
PcaFrame(table) ==
    IF Range(Pca07Predictors) \subseteq DOMAIN table.cols THEN table
    ELSE WithZScores(table)

\* the z columns that vary are whole numbers over one common scale, so that
\* the decomposition of the whole numbers is the decomposition of the values
CommonScale(table) ==
    \A a, b \in Range(Pca07Predictors) :
        (VarN2(table.cols[a].num) > 0 /\ VarN2(table.cols[b].num) > 0)
            => table.cols[a].q = table.cols[b].q

InitFrame ==
    /\ \E n \in 2..PcaWards :
          df \in {t \in FrameInputs(n) :
                    RawFeatureNames \subseteq DOMAIN t.cols =>
                        /\ CommonScale(WithZScores(t))
                        /\ PrincipalScores(Matrix(WithZScores(t), Pca07Predictors, {})) # {}}
    /\ cfg = DefaultConfig
    /\ res = NoRes
    /\ pc = "start"

\* the builder `name` returned `result` and left the caller's table as `after`
Called(name, after, result) ==
    /\ pc' = name
    /\ df' = after
    /\ res' = [status |-> result.status, out |-> result, before |-> df]
    /\ UNCHANGED cfg

\* uix/index.py compute_isolation_index: works on out = df.copy()
CallComputeIsolationIndex ==
    /\ pc = "start"
    /\ Called("compute_isolation_index(df)", df, compute_isolation_index(df, cfg))

\* cli/07_pca_iso_index.py compute_pca_index: the z columns are added to the
\* frame it was given when they are missing; df.copy() comes only before
\* iso_index_pca is added
CallComputePcaIndex ==
    /\ pc = "start"
    /\ IF ~(Range(Pca07Predictors) \subseteq DOMAIN df.cols)
          /\ ~(RawFeatureNames \subseteq DOMAIN df.cols)
       THEN Called("compute_pca_index(df)", df,
                   Raised("ValueError: Missing needed columns for PCA"))
       ELSE \E u \in PrincipalScores(Matrix(PcaFrame(df), Pca07Predictors, {})) :
               Called("compute_pca_index(df)", PcaFrame(df),
                      compute_pca_index(PcaFrame(df), u))

NextFrame ==
    \/ CallComputeIsolationIndex
    \/ CallComputePcaIndex

SpecFrame == InitFrame /\ [][NextFrame]_vars

\* C23: after compute_isolation_index or compute_pca_index returns, the
\* caller's table has exactly the columns and values it had before the
\* call; the added columns exist only in the returned table.
C23_BuildersLeaveInputAlone ==
    (pc # "start") => df = res.before

(***************************************************************************)
(* Re-running a stage on the table it wrote: uix/index.py                  *)
(* compute_isolation_index, cli/11_build_final_index.py main and           *)
(* cli/13_normalize_indices.py main.  res.first is the first run's table,  *)
(* res.second what the stage makes of it.                                  *)
(***************************************************************************)
\* an error that names the missing columns
RaisedMissing(kind, missing) ==
    [status |-> "error", error |-> kind, missing |-> missing]

Name100(col) == col \o "_100"

NormalizeRequired == {"iri_designed", "iri_pca"}

NormalizeOptional == {"iso_index", "transit_z"}

\* cli/13_normalize_indices.py main: <col>_100 = minmax_0_100(df[col]) for the
\* required columns and for the optional ones that are present
normalize_indices(table) ==
    LET missing_required == MissingColumns(NormalizeRequired, table)
        scaled == NormalizeRequired \cup (NormalizeOptional \cap DOMAIN table.cols)
    IN  IF missing_required # {}
        THEN RaisedMissing("ValueError: Missing required columns", missing_required)
        ELSE [status |-> "ok", n |-> table.n,
              cols |-> [c \in DOMAIN table.cols \cup {Name100(s) : s \in scaled} |->
                          IF \E s \in scaled : c = Name100(s)
                          THEN LET s == CHOOSE s \in scaled : c = Name100(s)
                               IN  Raw(minmax_0_100(table.cols[s].num))
                          ELSE table.cols[c]]]

\* the input files of the normalization: the two indices, with or without
\* transit_z, or with an index column missing; values may be missing
NormalizeTables(n) ==
    UNION {{[n |-> n, cols |-> c] : c \in [names -> {Raw(s) : s \in [1..n -> IdxCells]}]}
           : names \in {{"iri_designed", "iri_pca"},
                        {"iri_designed", "iri_pca", "transit_z"},
                        {"iri_designed"}}}

\* configurations of compute_isolation_index with unit weights
RerunConfigs == {c \in IdxConfigs : \A m \in DOMAIN c.weights : c.weights[m] = 1}

InitRerun ==
    /\ \/ df \in IdxTables /\ cfg \in RerunConfigs
       \/ /\ \E n \in 1..CompWards :
                df \in TablesOver(StandardizedNames, n) \cup NormalizeTables(n)
          /\ cfg = NoCfg
    /\ res = NoRes
    /\ pc = "start"

\* the table a run wrote, as the next run reads it
Written(result) == [n |-> result.n, cols |-> result.cols]

FirstRun(name, result) ==
    /\ pc = "start"
    /\ Returned(name, [status |-> result.status, first |-> result])

SecondRun(name, result) ==
    /\ pc = name
    /\ res.status = "ok"
    /\ Returned(name \o " again",
                [status |-> result.status, first |-> res.first, second |-> result])

RunComputeIsolationIndexFirst ==
    /\ cfg # NoCfg
    /\ FirstRun("compute_isolation_index", compute_isolation_index(df, cfg))

RunComputeIsolationIndexAgain ==
    /\ pc = "compute_isolation_index"
    /\ SecondRun("compute_isolation_index",
                 compute_isolation_index(Written(res.first), cfg))

RunBuildFinalIndexFirst ==
    /\ cfg = NoCfg
    /\ FirstRun("11_build_final_index", build_final_index(df))

RunBuildFinalIndexAgain ==
    /\ pc = "11_build_final_index"
    /\ SecondRun("11_build_final_index", build_final_index(Written(res.first)))

RunNormalizeIndicesFirst ==
    /\ cfg = NoCfg
    /\ FirstRun("13_normalize_indices", normalize_indices(df))

RunNormalizeIndicesAgain ==
    /\ pc = "13_normalize_indices"
    /\ SecondRun("13_normalize_indices", normalize_indices(Written(res.first)))

NextRerun ==
    \/ RunComputeIsolationIndexFirst
    \/ RunComputeIsolationIndexAgain
    \/ RunBuildFinalIndexFirst
    \/ RunBuildFinalIndexAgain
    \/ RunNormalizeIndicesFirst
    \/ RunNormalizeIndicesAgain

SpecRerun == InitRerun /\ [][NextRerun]_vars

RanAgain ==
    pc \in {"compute_isolation_index again", "11_build_final_index again",
            "13_normalize_indices again"}

MaxRecords == 2     \* records in one API answer: 0..MaxRecords

\* wards.keys(): the requested city's ward codes
EstatWards == {1, 2}

\* area codes the API may answer with: the requested ones and another one
EstatAreas == EstatWards \cup {3}

EstatTimes == {1, 2}

\* every period has its own figure
EstatRecords == {[area |-> a, time |-> t, value |-> t] : a \in EstatAreas, t \in EstatTimes}

Answers == UNION {[1..k -> EstatRecords] : k \in 0..MaxRecords}

\* stable sort of a frame by a whole-number key
SortByKey(seq, Key(_)) ==
    LET Before(j, i) == Key(seq[j]) < Key(seq[i]) \/ (Key(seq[j]) = Key(seq[i]) /\ j < i)
    IN  [k \in DOMAIN seq |->
            seq[CHOOSE i \in DOMAIN seq :
                    Cardinality({j \in DOMAIN seq : Before(j, i)}) = k - 1]]

\* duplicates are not removed
drop_duplicates_KeepsAll(rows) == rows

\* drop_duplicates(["area_code"], keep="last")
RECURSIVE drop_duplicates(_)
drop_duplicates(rows) ==
    IF rows = <<>> THEN <<>>
    ELSE IF \E j \in DOMAIN Tail(rows) : Tail(rows)[j].area = Head(rows).area
         THEN drop_duplicates(Tail(rows))
         ELSE <<Head(rows)>> \o drop_duplicates(Tail(rows))

Frame(rows) == [status |-> "ok", rows |-> rows]

AreaTimeKey(rec) == 10 * rec.area + rec.time

IsRequested(rec) == rec.area \in EstatWards

\* _series_from_table on the records the request returned
_series_from_table(items, label) ==
    IF items = <<>> THEN Frame(<<>>)
    ELSE IF \A i \in DOMAIN items : items[i].area \notin EstatWards
    THEN Raised("RuntimeError: Could not determine area column from e-Stat response")
    ELSE LET out == drop_duplicates(SortByKey(SelectSeq(items, IsRequested), AreaTimeKey))
         IN  Frame([i \in DOMAIN out |->
                      [area_code |-> out[i].area,
                       vals |-> [l \in {label} |-> Num(out[i].value)]]])

Join(f, g) == [x \in DOMAIN f \cup DOMAIN g |-> IF x \in DOMAIN f THEN f[x] ELSE g[x]]

Missing(labels) == [l \in labels |-> NaN]

WithArea(rows, a) == SelectSeq(rows, LAMBDA row : row.area_code = a)

\* the rows of left.merge(right, on="area_code", how="outer") with key a: a
\* row for every pair of a left and a right row, or the rows of one side
\* with the other side's columns missing
MergedRows(left, right, ll, rl, a) ==
    LET l == WithArea(left, a)
        r == WithArea(right, a)
    IN  IF l = <<>>
        THEN [i \in DOMAIN r |-> [area_code |-> a, vals |-> Join(Missing(ll), r[i].vals)]]
        ELSE IF r = <<>>
        THEN [i \in DOMAIN l |-> [area_code |-> a, vals |-> Join(l[i].vals, Missing(rl))]]
        ELSE [k \in 1..(Len(l) * Len(r)) |->
                 [area_code |-> a,
                  vals |-> Join(l[((k - 1) \div Len(r)) + 1].vals,
                                r[((k - 1) % Len(r)) + 1].vals)]]

RECURSIVE MergeKeys(_, _, _, _, _)
MergeKeys(left, right, ll, rl, keys) ==
    IF keys = <<>> THEN <<>>
    ELSE MergedRows(left, right, ll, rl, Head(keys))
             \o MergeKeys(left, right, ll, rl, Tail(keys))

AreaCodes(rows) == {rows[i].area_code : i \in DOMAIN rows}

\* DataFrame.merge(on="area_code", how="outer"); ll and rl are the value
\* columns of the two frames
MergeOuter(left, right, ll, rl) ==
    MergeKeys(left, right, ll, rl, SortedSeq(AreaCodes(left) \cup AreaCodes(right)))

\* (num / den * 100), missing when a side is missing
Percent(vals, label) ==
    [l \in {label} |->
        IF IsNaN(vals["num"]) \/ IsNaN(vals["den"]) THEN NaN
        ELSE Frac(100 * vals["num"][1], vals["den"][1])]

\* _percent_from_pair on the records of the numerator and denominator tables
_percent_from_pair(num_items, den_items, label) ==
    LET num == _series_from_table(num_items, "num")
        den == _series_from_table(den_items, "den")
    IN  IF num.status = "error" THEN num
        ELSE IF den.status = "error" THEN den
        ELSE IF num.rows = <<>> \/ den.rows = <<>>
        THEN LET area_codes == SortedSeq(EstatWards) IN
             Frame([i \in DOMAIN area_codes |->
                       [area_code |-> area_codes[i], vals |-> Missing({label})]])
        ELSE LET merged == MergeOuter(num.rows, den.rows, {"num"}, {"den"}) IN
             Frame([i \in DOMAIN merged |->
                       [area_code |-> merged[i].area_code,
                        vals |-> Percent(merged[i].vals, label)]])

FeatureLabels == {"pct_age65p", "pct_single65p", "poverty_rate"}

WardKey(row) == row.area_code

\* the end of build_city_features: missing feature columns are added, the
\* rows sorted by ward_jis
Features(rows) ==
    LET feat == SortByKey(rows, WardKey) IN
    [status |-> "ok",
     feat |-> [i \in DOMAIN feat |->
                 [ward_jis |-> feat[i].area_code,
                  ward_name |-> IF feat[i].area_code \in EstatWards
                                THEN Num(feat[i].area_code) ELSE NaN,
                  vals |-> Join(feat[i].vals, Missing(FeatureLabels))]]]

\* build_city_features: pct_age65p from a numerator/denominator pair, or
\* pct_age65p and pct_single65p from two percent tables
build_city_features(answers) ==
    IF answers.source = "pair"
    THEN LET f == _percent_from_pair(answers.first, answers.second, "pct_age65p") IN
         IF f.status = "error" THEN f ELSE Features(f.rows)
    ELSE LET f == _series_from_table(answers.first, "pct_age65p")
             g == _series_from_table(answers.second, "pct_single65p")
         IN  IF f.status = "error" THEN f
             ELSE IF g.status = "error" THEN g
             ELSE Features(MergeOuter(f.rows, g.rows, {"pct_age65p"}, {"pct_single65p"}))

InitEstat ==
    /\ df \in [source : {"pair", "percent tables"}, first : Answers, second : Answers]
    /\ cfg = NoCfg
    /\ res = NoRes
    /\ pc = "start"

RunBuildCityFeatures ==
    /\ pc = "start"
    /\ Returned("build_city_features", build_city_features(df))

NextEstat ==
    \/ RunBuildCityFeatures

SpecEstat == InitEstat /\ [][NextEstat]_vars

FeaturesBuilt == pc = "build_city_features" /\ res.status = "ok"

\* C25: the table returned by build_city_features has at most one row per
\* ward identifier and every identifier is one of the requested ward
\* codes, whatever records the API returned.
C25_OneRowPerRequestedWard ==
    FeaturesBuilt =>
        /\ \A i, j \in DOMAIN res.feat :
              res.feat[i].ward_jis = res.feat[j].ward_jis => i = j
        /\ \A i \in DOMAIN res.feat : res.feat[i].ward_jis \in EstatWards

\* the answers held several periods of one ward and an unrequested area,
\* and a table came back
C25_Witness ==
    /\ FeaturesBuilt
    /\ Len(res.feat) >= 1
    /\ \E i, j \in DOMAIN df.first :
          i # j /\ df.first[i].area = df.first[j].area
    /\ \E i \in DOMAIN df.second : df.second[i].area \notin EstatWards

(***************************************************************************)
(* Merging the index table with the transit table (cli/10_merge_transit.py *)
(* main) and with the access table (cli/08_merge_access.py and             *)
(* cli/08_merge_osaka_access.py merge_access).  A frame is the name of its *)
(* ward identifier column, the identifiers of its rows in file order, and  *)
(* its other columns.                                                      *)
(***************************************************************************)
MergeRows == 2      \* rows of a frame: up to MergeRows

KeySeqs(ids, least) == UNION {[1..k -> ids] : k \in least..MergeRows}

Frames(keycols, keyseqs, namesets, vals) ==
    UNION {UNION {{[keycol |-> kc, keys |-> k, cols |-> c] :
                      kc \in keycols,
                      c \in [names -> {Raw(s) : s \in [1..Len(k) -> vals]}]}
                  : names \in namesets}
           : k \in keyseqs}

HasDuplicates(keys) == \E i, j \in DOMAIN keys : i # j /\ keys[i] = keys[j]

\* the rows with a partner only, as how="inner" would keep them
LeftMergeOneToOne_Inner(idx, right_keys, right_cols) ==
    IF HasDuplicates(idx.keys) \/ HasDuplicates(right_keys)
    THEN Raised("MergeError: Merge keys are not unique; not a one-to-one merge")
    ELSE LET kept == SelectSeq(idx.keys, LAMBDA k : \E j \in DOMAIN right_keys : right_keys[j] = k)
             at == [i \in DOMAIN kept |-> CHOOSE r \in DOMAIN idx.keys : idx.keys[r] = kept[i]]
         IN  [status |-> "ok", keys |-> kept,
              cols |-> Join([c \in DOMAIN idx.cols |->
                                Raw([i \in DOMAIN kept |-> idx.cols[c].num[at[i]]])],
                            [c \in DOMAIN right_cols |->
                                Raw([i \in DOMAIN kept |->
                                       right_cols[c].num[CHOOSE j \in DOMAIN right_keys :
                                                            right_keys[j] = kept[i]]])])]

\* idx.merge(right, on="ward_jis", how="left", validate="one_to_one")
LeftMergeOneToOne(idx, right_keys, right_cols) ==
    IF HasDuplicates(idx.keys) \/ HasDuplicates(right_keys)
    THEN Raised("MergeError: Merge keys are not unique; not a one-to-one merge")
    ELSE [status |-> "ok", keys |-> idx.keys,
          cols |-> Join(idx.cols,
                        [c \in DOMAIN right_cols |->
                            Raw([i \in DOMAIN idx.keys |->
                                   IF \E j \in DOMAIN right_keys : right_keys[j] = idx.keys[i]
                                   THEN right_cols[c].num[CHOOSE j \in DOMAIN right_keys :
                                                             right_keys[j] = idx.keys[i]]
                                   ELSE NaN])])]

\* the columns of the merged table that 10_merge_transit takes for a
\* station metric: station_*, *_count, station_density
TransitCandidates == {"station_density"}

\* cli/10_merge_transit.py main
merge_transit(idx, tr) ==
    IF idx.keycol # "ward_jis"
    THEN Raised("SystemExit: ward_jis column not found in index dataset")
    ELSE IF tr.keycol \notin {"ward_jis", "N03_007"}
    THEN Raised("SystemExit: Neither ward_jis nor N03_007 found in transit dataset")
    ELSE LET kept == DOMAIN tr.cols \ DOMAIN idx.cols
             merged == LeftMergeOneToOne(idx, tr.keys, [c \in kept |-> tr.cols[c]])
         IN  IF merged.status = "error" THEN merged
             ELSE IF "transit_z" \in DOMAIN merged.cols THEN merged
             ELSE IF TransitCandidates \cap DOMAIN merged.cols = {} THEN merged
             ELSE LET base == CHOOSE c \in TransitCandidates : c \in DOMAIN merged.cols
                  IN  [merged EXCEPT !.cols =
                          Put(@, "transit_z", MergeTransitZ(merged.cols[base].num).col)]

AccessRequired == {"access_raw", "access_z"}

\* merge_access of cli/08_merge_access.py (strict = FALSE: the columns are
\* selected unchecked) and of cli/08_merge_osaka_access.py (strict = TRUE)
merge_access_files(idx, acc, strict) ==
    LET missing == MissingColumns(AccessRequired, acc)
                       \cup (IF acc.keycol = "ward_jis" THEN {} ELSE {"ward_jis"})
    IN  IF missing # {}
        THEN IF strict
             THEN RaisedMissing("ValueError: Missing columns in access file", missing)
             ELSE Raised("KeyError")
        ELSE IF idx.keycol # "ward_jis" THEN Raised("KeyError")
        ELSE LET merged == LeftMergeOneToOne(idx, acc.keys,
                                             [c \in AccessRequired |-> acc.cols[c]])
             IN  IF merged.status = "error" THEN merged
                 ELSE LET with_access == merge_access([n |-> Len(merged.keys),
                                                       cols |-> merged.cols])
                      IN  IF with_access.status = "error" THEN with_access
                          ELSE [status |-> "ok", keys |-> merged.keys,
                                cols |-> merged.cols, index |-> with_access.index]

InitMerge ==
    /\ \/ df \in [idx : Frames({"ward_jis", "code"}, KeySeqs({1, 2}, 1),
                               {{"iso_index"}}, {Num(0)}),
                  tr : Frames({"ward_jis", "N03_007", "code"}, KeySeqs({1, 2, 3}, 0),
                              {{"station_density"}, {"access_raw", "access_z"}, {}},
                              {Num(1)})]
       \/ df \in [idx : Frames({"ward_jis"}, {[i \in 1..n |-> i] : n \in 1..MergeRows},
                               {{}, {"transit_z"}, {"iso_index"}}, ZVals),
                  tr : Frames({"ward_jis"}, KeySeqs({1, 2, 3}, 0),
                              {{}, {"transit_z"}, {"station_density"},
                               {"transit_z", "station_density"}, {"access_raw", "access_z"}},
                              ZVals)]
    /\ cfg = NoCfg
    /\ res = NoRes
    /\ pc = "start"

RunMergeTransitMain ==
    /\ pc = "start"
    /\ Returned("10_merge_transit.main", merge_transit(df.idx, df.tr))

RunMergeAccessTokyo ==
    /\ pc = "start"
    /\ Returned("08_merge_access.merge_access", merge_access_files(df.idx, df.tr, FALSE))

RunMergeAccessOsaka ==
    /\ pc = "start"
    /\ Returned("08_merge_osaka_access.merge_access",
                merge_access_files(df.idx, df.tr, TRUE))

NextMerge ==
    \/ RunMergeTransitMain
    \/ RunMergeAccessTokyo
    \/ RunMergeAccessOsaka

SpecMerge == InitMerge /\ [][NextMerge]_vars

TransitMerged == pc = "10_merge_transit.main" /\ res.status = "ok"

\* the column the z-score is taken from when the transit file has no
\* transit_z: the station metric as merged onto the index rows
StationMetric == res.cols["station_density"].num

\* C26: whenever 10_merge_transit writes its output, the merged table has
\* a transit_z column: the transit file's own transit_z when it supplies
\* one, otherwise the population z-score of a station metric column (all
\* zeros when that column is constant).
C26_TransitZAlwaysWritten ==
    TransitMerged =>
        /\ "transit_z" \in DOMAIN res.cols
        /\ "transit_z" \in DOMAIN df.tr.cols =>
              \A i \in DOMAIN res.keys : \A j \in DOMAIN df.tr.keys :
                  df.tr.keys[j] = res.keys[i] =>
                      res.cols["transit_z"].num[i] = df.tr.cols["transit_z"].num[j]
        /\ "transit_z" \notin DOMAIN df.tr.cols =>
              IF Count(StationMetric) = 0
              THEN res.cols["transit_z"] = AllNaN(StationMetric)
              ELSE IF VarN2(StationMetric) = 0
              THEN res.cols["transit_z"] = Zeros(StationMetric)
              ELSE SameValues(res.cols["transit_z"], Standardized(StationMetric, 0))

Partnered(k) == \E j \in DOMAIN df.tr.keys : df.tr.keys[j] = k

\* C28: the merges of the index table with the transit table and with the
\* access table keep exactly the index table's wards: every index row is
\* in the output exactly once and in place, partner or not, no ward is
\* added, and a ward identifier duplicated on either side aborts the merge.
C28_MergeKeepsIndexWards ==
    (pc # "start") =>
        /\ res.status = "ok" => res.keys = df.idx.keys
        /\ (HasDuplicates(df.idx.keys) \/ HasDuplicates(df.tr.keys))
              => res.status = "error"

\* a merge went through with an index ward that has no partner and a ward
\* of the other table that is not in the index
C28_Witness ==
    /\ pc \in {"10_merge_transit.main", "08_merge_osaka_access.merge_access"}
    /\ res.status = "ok"
    /\ Len(res.keys) >= 2
    /\ \E i \in DOMAIN df.idx.keys : ~Partnered(df.idx.keys[i])
    /\ \E i \in DOMAIN df.idx.keys : Partnered(df.idx.keys[i])
    /\ \E j \in DOMAIN df.tr.keys : df.tr.keys[j] \notin Range(df.idx.keys)

(***************************************************************************)
(* The required-column checks of the index-building stages:                *)
(* scripts/build_designed_index.py, cli/11_build_final_index.py,           *)
(* cli/12_model_osaka_indices.py, cli/12_model_tokyo_indices.py and        *)
(* cli/13_normalize_indices.py.                                            *)
(***************************************************************************)
\* required_cols of cli/12_model_osaka_indices.py
OsakaModelRequired ==
    {"ward_jis", "ward_name", "iri_designed"} \cup Range(OsakaPredictors)

\* required_cols of cli/12_model_tokyo_indices.py
TokyoModelRequired ==
    {"ward_jis", "ward_name", "iri_designed"} \cup Range(TokyoPredictors)

\* the required list of each stage
StageRequired(stage) ==
    CASE stage = "build_designed_index.main" -> DesignedRequired
      [] stage = "11_build_final_index.main" -> DesignedRequired
      [] stage = "12_model_osaka_indices.main" -> OsakaModelRequired
      [] stage = "12_model_tokyo_indices.main" -> TokyoModelRequired
      [] stage = "13_normalize_indices.main" -> NormalizeRequired

\* every column a stage may ask for
StageColumns == TokyoModelRequired \cup NormalizeRequired

\* the input files: any subset of the columns, two wards, whole-number cells
StageInputs ==
    {[n |-> 2, cols |-> [c \in names |-> Raw(s)]] :
        names \in SUBSET StageColumns,
        s \in {<<Num(0), Num(1)>>, <<Num(1), Num(0)>>}}

InitStage ==
    /\ df \in StageInputs
    /\ cfg = NoCfg
    /\ res = NoRes
    /\ pc = "start"

\* missing = [c for c in required if c not in df.columns]; if missing: raise
RunDesignedMain ==
    /\ pc = "start"
    /\ LET missing == MissingColumns(DesignedRequired, df) IN
       Returned("build_designed_index.main",
                IF missing # {}
                THEN RaisedMissing("ValueError: Missing required columns", missing)
                ELSE build_designed_index(df))

RunFinalMain ==
    /\ pc = "start"
    /\ LET missing == MissingColumns(DesignedRequired, df) IN
       Returned("11_build_final_index.main",
                IF missing # {}
                THEN RaisedMissing("ValueError: Missing required columns for iso_final",
                                   missing)
                ELSE build_final_index(df))

RunModelOsakaMain ==
    /\ pc = "start"
    /\ LET missing == MissingColumns(OsakaModelRequired, df) IN
       IF missing # {}
       THEN Returned("12_model_osaka_indices.main",
                     RaisedMissing("ValueError: Missing required columns", missing))
       ELSE \E u \in PrincipalScores(Matrix(df, OsakaPredictors, {"transit_z"})) :
               Returned("12_model_osaka_indices.main",
                        model_indices(df, OsakaPredictors, {"transit_z"}, u))

RunModelTokyoMain ==
    /\ pc = "start"
    /\ LET missing == MissingColumns(TokyoModelRequired, df) IN
       IF missing # {}
       THEN Returned("12_model_tokyo_indices.main",
                     RaisedMissing("ValueError: Missing required columns", missing))
       ELSE \E u \in PrincipalScores(Matrix(df, TokyoPredictors, {"access_z", "transit_z"})) :
               Returned("12_model_tokyo_indices.main",
                        model_indices(df, TokyoPredictors, {"access_z", "transit_z"}, u))

RunNormalizeMain ==
    /\ pc = "start"
    /\ Returned("13_normalize_indices.main", normalize_indices(df))

NextStage ==
    \/ RunDesignedMain
    \/ RunFinalMain
    \/ RunModelOsakaMain
    \/ RunModelTokyoMain
    \/ RunNormalizeMain

SpecStage == InitStage /\ [][NextStage]_vars

\* the required columns the input file does not have
Absent == {c \in StageRequired(pc) : c \notin DOMAIN df.cols}

\* C27: when a required input column is absent, each index-building stage
\* stops with an error that lists exactly the missing columns, and has
\* neither a derived column nor an output table; with every required column
\* present the stage goes through
C27_MissingColumnsStopTheStage ==
    (pc # "start") =>
        /\ Absent # {} => /\ res.status = "error"
                          /\ res.missing = Absent
                          /\ DOMAIN res = {"status", "error", "missing"}
        /\ Absent = {} => res.status = "ok"

\* the Tokyo modelling stage stopped on a file that lacks several of its
\* columns and has others
C27_Witness ==
    /\ pc = "12_model_tokyo_indices.main"
    /\ res.status = "error"
    /\ Cardinality(res.missing) >= 2
    /\ res.missing # TokyoModelRequired
    /\ "iri_pca" \in DOMAIN df.cols

(***************************************************************************)
(* cli/01_ingest_jp_estat.py _request_estat and cli/01_ingest_us_acs.py    *)
(* fetch_with_retry: paging and retries.  df is r, the last response;      *)
(* cfg is the position of the loops; res.items holds, for each record      *)
(* collected, the status code of the response it was parsed from.          *)
(***************************************************************************)
EstatAttempts == 5  \* for attempt in range(5)

AcsTries == 4       \* tries: int = 4

PageLimit == 2      \* records of a full page (p["limit"]), scaled down

MaxPages == 2       \* the server has at most MaxPages full pages

RetryCodes == {429, 503}

StatusCodes == {200, 404} \cup RetryCodes

\* a response: its status code, and its body, which is either not JSON or
\* JSON with DATA_INF.VALUE holding 0..PageLimit records
Responses ==
    {[code |-> c, json |-> FALSE, VALUE |-> 0] : c \in StatusCodes}
        \cup {[code |-> c, json |-> TRUE, VALUE |-> k] : c \in StatusCodes, k \in 0..PageLimit}

NoResponse == [code |-> 0, json |-> FALSE, VALUE |-> 0]

Collected(items) == [status |-> "ok", items |-> items]

Collecting(items) == [status |-> "running", items |-> items]

InitRequest ==
    /\ df = NoResponse
    /\ cfg = [start |-> 1, attempt |-> 0]
    /\ res = Collecting(<<>>)
    /\ pc = "start"

\* data = r.json() and what follows it, for the response r the retry loop
\* ended with
ParsePage(r) ==
    LET value == [i \in 1..r.VALUE |-> r.code]
        items == res.items \o value
    IN  IF ~r.json
        THEN /\ res' = Raised("ValueError: e-Stat did not return JSON")
             /\ pc' = "_request_estat"
             /\ cfg' = cfg
        ELSE IF r.VALUE = 0
        THEN /\ res' = Collected(res.items)
             /\ pc' = "_request_estat"
             /\ cfg' = cfg
        ELSE IF r.VALUE < PageLimit
        THEN /\ res' = Collected(items)
             /\ pc' = "_request_estat"
             /\ cfg' = cfg
        ELSE /\ res' = Collecting(items)
             /\ pc' = "_request_estat: while True"
             /\ cfg' = [start |-> cfg.start + PageLimit, attempt |-> 0]

\* the page the server is asked for is within what it has
PageOffered(r) ==
    r.VALUE = PageLimit => cfg.start + PageLimit <= MaxPages * PageLimit

\* one pass of the retry loop: r = requests.get(...)
EstatAttempt ==
    /\ pc \in {"start", "_request_estat: while True", "_request_estat: retry"}
    /\ cfg.attempt < EstatAttempts
    /\ \E r \in Responses :
          /\ PageOffered(r)
          /\ df' = r
          /\ IF r.code = 200
             THEN ParsePage(r)
             ELSE IF r.code \in RetryCodes
             THEN IF cfg.attempt + 1 < EstatAttempts
                  THEN /\ cfg' = [cfg EXCEPT !.attempt = @ + 1]
                       /\ pc' = "_request_estat: retry"
                       /\ res' = res
                  ELSE \* range(5) is used up: the loop ends without a break
                       ParsePage(r)
             ELSE /\ res' = Raised("HTTPError")
                  /\ pc' = "_request_estat"
                  /\ cfg' = cfg

\* one pass of fetch_with_retry's loop
AcsAttempt ==
    /\ pc \in {"start", "fetch_with_retry: retry"}
    /\ cfg.attempt < AcsTries
    /\ cfg' = [cfg EXCEPT !.attempt = @ + 1]
    /\ \E r \in Responses :
          /\ df' = r
          /\ IF r.code = 200
             THEN /\ res' = IF r.json THEN Collected([i \in 1..r.VALUE |-> r.code])
                                      ELSE Raised("ValueError: not JSON")
                  /\ pc' = "fetch_with_retry"
             ELSE IF r.code \in RetryCodes
             THEN IF cfg.attempt + 1 < AcsTries
                  THEN /\ res' = res
                       /\ pc' = "fetch_with_retry: retry"
                  ELSE /\ res' = Raised("RuntimeError: Failed after tries")
                       /\ pc' = "fetch_with_retry"
             ELSE /\ res' = Raised("HTTPError")
                  /\ pc' = "fetch_with_retry"

NextRequest ==
    \/ EstatAttempt
    \/ AcsAttempt

SpecRequest == InitRequest /\ [][NextRequest]_vars

\* a call has returned or raised
RequestDone == pc \in {"_request_estat", "fetch_with_retry"}

\* C29: _request_estat collects only records parsed from an HTTP 200
\* response, makes at most 5 attempts per page, and fails when the page
\* still answers 429 or 503 at the fifth attempt
C29_FailsAfterFifthAttempt ==
    (pc = "_request_estat") =>
        /\ cfg.attempt < EstatAttempts
        /\ res.status = "ok" => \A i \in DOMAIN res.items : res.items[i] = 200
        /\ df.code \in RetryCodes => res.status = "error"

\* fetch_with_retry: the same property, for the ACS ingest
AcsFailsAfterLastTry ==
    (pc = "fetch_with_retry") =>
        /\ cfg.attempt <= AcsTries
        /\ res.status = "ok" => \A i \in DOMAIN res.items : res.items[i] = 200
        /\ df.code \in RetryCodes => res.status = "error"

(***************************************************************************)
(* The Osaka stages in pipeline order: cli/01_ingest_osaka_base.py,        *)
(* cli/07_ingest_osaka_access.py, cli/09_ingest_osaka_transit.py and       *)
(* cli/10_merge_osaka_transit.py.  A file is the set of its column names;  *)
(* df holds the raw inputs, res.files the files written so far.            *)
(***************************************************************************)
\* rename_map of 01_ingest_osaka_base, in the order of the dict
BaseRenameMap ==
    << <<"ward_name", "ward_name_ja">>, <<"ward", "ward_name_ja">>,
       <<"total_population", "pop_total">>, <<"population_total", "pop_total">>,
       <<"population", "pop_total">>, <<"pop_65p", "pop_65plus">>,
       <<"population_65plus", "pop_65plus">>, <<"pop_65plus", "pop_65plus">>,
       <<"single_hh_65plus", "hh_single_65plus">>, <<"single65p", "hh_single_65plus">>,
       <<"poverty", "poverty_rate">>, <<"poverty_pct", "poverty_rate">> >>

RECURSIVE RenameColumns(_, _, _)
\* for old, new in rename_map.items(): if old in df.columns and new not in
\* df.columns: rename
RenameColumns(columns, map, i) ==
    IF i > Len(map) THEN columns
    ELSE LET old == map[i][1]
             new == map[i][2]
         IN  RenameColumns(IF old \in columns /\ new \notin columns
                           THEN (columns \ {old}) \cup {new} ELSE columns,
                           map, i + 1)

BaseRequired ==
    {"ward_name_ja", "pop_total", "pop_65plus", "hh_single_65plus", "poverty_rate"}

\* clean_cols
BaseCleanColumns == BaseRequired \cup {"pct_age65p", "pct_single65p"}

\* out_cols of 07_ingest_osaka_access
AccessOutColumns == {"ward_jis", "ward_name_ja", "access_raw", "access_z"}

\* the columns of out_df of 09_ingest_osaka_transit
TransitOutColumns ==
    {"N03_007", "station_count", "area_km2", "station_density", "transit_z"}

OsakaKey == "ward_name_ja"

\* required_features of 10_merge_osaka_transit
OsakaRequiredFeatures ==
    {"pct_age65p", "pct_single65p", "poverty_rate", "access_social", "access_transit"}

\* the columns of left.merge(right, on=key, how="left"): columns the two
\* sides share besides the key get the suffixes _x and _y
MergedColumns(left, right, key) ==
    LET shared == (left \cap right) \ {key} IN
    ((left \cup right) \ shared)
        \cup {c \o "_x" : c \in shared} \cup {c \o "_y" : c \in shared}

\* the column names a raw base file may carry
RawBaseNames ==
    {"ward_name", "ward", "ward_name_ja", "population", "pop_total", "pop_65p",
     "pop_65plus", "single65p", "hh_single_65plus", "poverty", "poverty_rate"}

\* the column names a raw access file may carry
RawAccessNames == {"ward_jis", "ward_name", "ward_name_ja", "access_raw"}

NoFiles == [f \in {} |-> {}]

Wrote(name, columns) ==
    [status |-> "ok", error |-> "", files |-> Put(res.files, name, columns)]

Stopped(error) == [status |-> "error", error |-> error, files |-> res.files]

InitOsaka ==
    /\ df \in [base : SUBSET RawBaseNames, access : SUBSET RawAccessNames]
    /\ cfg = NoCfg
    /\ res = [status |-> "ok", error |-> "", files |-> NoFiles]
    /\ pc = "start"

\* a stage ends: it has written its file or raised
Stage(name, result) ==
    /\ res' = result
    /\ pc' = name
    /\ UNCHANGED <<df, cfg>>

\* each stage starts when the one before it has succeeded
RunIngestOsakaBase ==
    /\ pc = "start"
    /\ LET columns == RenameColumns(df.base, BaseRenameMap, 1) IN
       Stage("01_ingest_osaka_base",
             IF BaseRequired \ columns # {}
             THEN Stopped("ValueError: Missing required columns")
             ELSE Wrote("jp_osaka_base_clean.csv", BaseCleanColumns))

RunIngestOsakaAccess ==
    /\ pc = "01_ingest_osaka_base"
    /\ res.status = "ok"
    /\ LET columns == IF "ward_name_ja" \notin df.access /\ "ward_name" \in df.access
                      THEN (df.access \ {"ward_name"}) \cup {"ward_name_ja"}
                      ELSE df.access
       IN  Stage("07_ingest_osaka_access",
                 IF "ward_jis" \notin df.access
                 THEN Stopped("ValueError: Expected 'ward_jis' column")
                 ELSE IF "ward_name_ja" \notin columns
                 THEN Stopped("ValueError: Expected either 'ward_name_ja' or 'ward_name' column")
                 ELSE IF "access_raw" \notin columns
                 THEN Stopped("ValueError: Expected 'access_raw' column")
                 ELSE Wrote("jp_osaka_access_proxy.csv", AccessOutColumns))

RunIngestOsakaTransit ==
    /\ pc = "07_ingest_osaka_access"
    /\ res.status = "ok"
    /\ Stage("09_ingest_osaka_transit", Wrote("jp_osaka_transit.csv", TransitOutColumns))

\* the first of base, access, transit that lacks the key, "" when none does
FirstWithoutKey(base, access, transit) ==
    IF OsakaKey \notin base THEN "base"
    ELSE IF OsakaKey \notin access THEN "access"
    ELSE IF OsakaKey \notin transit THEN "transit"
    ELSE ""

RunMergeOsakaTransit ==
    /\ pc = "09_ingest_osaka_transit"
    /\ res.status = "ok"
    /\ LET base == res.files["jp_osaka_base_clean.csv"]
           access == res.files["jp_osaka_access_proxy.csv"]
           transit == res.files["jp_osaka_transit.csv"]
           keyless == FirstWithoutKey(base, access, transit)
           merged == MergedColumns(MergedColumns(base, access, OsakaKey), transit, OsakaKey)
       IN  Stage("10_merge_osaka_transit",
                 IF keyless # ""
                 THEN Stopped("ValueError: " \o keyless \o " data missing 'ward_name_ja' column.")
                 ELSE IF OsakaRequiredFeatures \ merged # {}
                 THEN Stopped("ValueError: Missing required features for Osaka index")
                 ELSE Wrote("jp_osaka_features.parquet", merged))

NextOsaka ==
    \/ RunIngestOsakaBase
    \/ RunIngestOsakaAccess
    \/ RunIngestOsakaTransit
    \/ RunMergeOsakaTransit

SpecOsaka == InitOsaka /\ [][NextOsaka]_vars

\* C30: the feature-merge stage, run on the files the three ingest stages
\* wrote, does not abort: each file has the join key ward_name_ja, and the
\* merged table has the required feature columns
C30_OsakaPipelineSucceeds ==
    (pc = "10_merge_osaka_transit") =>
        /\ \A f \in {"jp_osaka_base_clean.csv", "jp_osaka_access_proxy.csv",
                     "jp_osaka_transit.csv"} : OsakaKey \in res.files[f]
        /\ res.status = "ok"
        /\ OsakaRequiredFeatures \subseteq res.files["jp_osaka_features.parquet"]

\* the part of C30 that does hold: the base and access files carry the key
BaseAndAccessHaveKey ==
    (pc \in {"07_ingest_osaka_access", "09_ingest_osaka_transit"} /\ res.status = "ok") =>
        /\ OsakaKey \in res.files["jp_osaka_base_clean.csv"]
        /\ OsakaKey \in res.files["jp_osaka_access_proxy.csv"]

====
